---- MODULE Spec2Model ----
(***************************************************************************)
(* A model of the msv sequence-diagram renderer (mermaid-svg-render).      *)
(*                                                                         *)
(* Text is a sequence of one-character strings.  Every f64 coordinate is   *)
(* a fixed-point integer counting 1/Scale of a pixel; Scale is chosen so   *)
(* that every division the renderer performs within the bounds is exact,   *)
(* i.e. coordinates are modelled as exact rationals (f64 rounding is not   *)
(* modelled).                                                              *)
(***************************************************************************)
EXTENDS Integers, Sequences, FiniteSets, TLC

\* ------------------------------------------------------------------ bounds

\* Largest number of participants of a diagram.
MaxParticipants == 3

\* Largest number of statements of a diagram.
MaxStatements == 2

\* Longest text handed to a text primitive on its own.
MaxTextLen == 3

\* ------------------------------------------------- sequence/constants.rs

MIN_PARTICIPANT_WIDTH == 80
MIN_PARTICIPANT_HEIGHT == 40
PARTICIPANT_PADDING == 20
PARTICIPANT_VERTICAL_PADDING == 16
LINE_HEIGHT == 18
MIN_PARTICIPANT_SPACING == 50
MESSAGE_TEXT_MARGIN == 40
MESSAGE_SPACING == 50
SELF_MESSAGE_HEIGHT == 40
SELF_LOOP_WIDTH == 40
SELF_LOOP_TEXT_OFFSET == 50
PADDING == 20

\* The reference font size of the character-width table (layout/text.rs).
BASE_FONT_SIZE == 14

\* ------------------------------------------------------------ arithmetic

RECURSIVE Gcd(_, _)
Gcd(a, b) == IF b = 0 THEN a ELSE Gcd(b, a % b)

RECURSIVE LcmUpTo(_)
LcmUpTo(n) == IF n <= 1 THEN 1 ELSE LET l == LcmUpTo(n - 1) IN (l * n) \div Gcd(l, n)

RECURSIVE Pow(_, _)
Pow(b, e) == IF e = 0 THEN 1 ELSE b * Pow(b, e - 1)

\* Units per pixel.  A gap is divided by a gap count in 1..MaxParticipants-1
\* at most once per statement; halves are taken of widths and of sums of
\* centres (a factor 4); font_size * 0.35 is a multiple of 1/10.
Scale == 40 * Pow(LcmUpTo(MaxParticipants - 1), MaxStatements)

Px(n) == n * Scale

Max2(a, b) == IF a >= b THEN a ELSE b

\* f64::ceil of a fixed-point value, as a whole number of pixels.
Ceil(v) == IF v % Scale = 0 THEN v \div Scale ELSE (v \div Scale) + 1

\* `x as u32` of a whole number: the cast saturates at 0.
AsU32(n) == IF n < 0 THEN 0 ELSE n

RECURSIVE SumSeq(_)
SumSeq(s) == IF s = <<>> THEN 0 ELSE Head(s) + SumSeq(Tail(s))

RECURSIVE FoldMax(_, _)
FoldMax(init, s) == IF s = <<>> THEN init ELSE FoldMax(Max2(init, Head(s)), Tail(s))

\* ------------------------------------------------------------------ text

RECURSIVE Rep(_, _)
Rep(c, n) == IF n = 0 THEN <<>> ELSE <<c>> \o Rep(c, n - 1)

Str_br_slash == <<"<", "b", "r", "/", ">">>
Str_br == <<"<", "b", "r", ">">>
NL == "\n"

\* The backquote (width 4 in the table) cannot be written in a string here
\* and is left out of the model's alphabet.
char_width(c) ==
    CASE c \in {"i", "j", "l", "!", "|", ".", ",", ":", ";", "'"} -> 4
      [] c \in {"I", "f", "t", "r"} -> 5
      [] c \in {" ", "-", "(", ")", "[", "]", "{", "}"} -> 5
      [] c \in {"a", "b", "c", "d", "e", "g", "h", "k", "n", "o", "p", "q", "s",
                "u", "v", "x", "y", "z"} -> 7
      [] c \in {"w", "m"} -> 10
      [] c \in {"A", "B", "C", "D", "E", "F", "G", "H", "K", "L", "N", "O", "P",
                "Q", "R", "S", "T", "U", "V", "X", "Y", "Z"} -> 9
      [] c \in {"M", "W"} -> 11
      [] c \in {"0", "1", "2", "3", "4", "5", "6", "7", "8", "9"} -> 7
      [] c \in {"@", "#", "$", "%", "&", "+", "=", "<", ">", "?", "/", "\\",
                "\"", "*"} -> 8
      [] OTHER -> 7

RECURSIVE base_width(_)
base_width(text) ==
    IF text = <<>> THEN 0 ELSE char_width(Head(text)) + base_width(Tail(text))

\* base_width * (font_size / 14.0), in fixed-point units.
text_width(text, font_size) ==
    (base_width(text) * Scale * font_size) \div BASE_FONT_SIZE

IsPrefix(p, s) == Len(p) <= Len(s) /\ SubSeq(s, 1, Len(p)) = p

\* str::replace: non-overlapping matches, left to right.
RECURSIVE Replace(_, _, _)
Replace(s, pat, rep) ==
    IF s = <<>> THEN <<>>
    ELSE IF IsPrefix(pat, s)
         THEN rep \o Replace(SubSeq(s, Len(pat) + 1, Len(s)), pat, rep)
         ELSE <<Head(s)>> \o Replace(Tail(s), pat, rep)

\* str::split on one character: always at least one piece.
RECURSIVE SplitAcc(_, _, _)
SplitAcc(s, sep, cur) ==
    IF s = <<>> THEN <<cur>>
    ELSE IF Head(s) = sep
         THEN <<cur>> \o SplitAcc(Tail(s), sep, <<>>)
         ELSE SplitAcc(Tail(s), sep, Append(cur, Head(s)))

Split(s, sep) == SplitAcc(s, sep, <<>>)

IsWhitespace(c) == c \in {" ", "\t", "\n", "\r"}

RECURSIVE TrimStart(_)
TrimStart(s) ==
    IF s /= <<>> /\ IsWhitespace(Head(s)) THEN TrimStart(Tail(s)) ELSE s

RECURSIVE TrimEnd(_)
TrimEnd(s) ==
    IF s /= <<>> /\ IsWhitespace(s[Len(s)]) THEN TrimEnd(SubSeq(s, 1, Len(s) - 1)) ELSE s

Trim(s) == TrimEnd(TrimStart(s))

RECURSIVE MapTrimNonEmpty(_)
MapTrimNonEmpty(pieces) ==
    IF pieces = <<>> THEN <<>>
    ELSE LET t == Trim(Head(pieces)) IN
         (IF t = <<>> THEN <<>> ELSE <<t>>) \o MapTrimNonEmpty(Tail(pieces))

\* A variant that drops the empty pieces without trimming any.
split_by_line_breaks_no_trim(text) ==
    SelectSeq(Split(Replace(Replace(text, Str_br_slash, <<NL>>), Str_br, <<NL>>), NL),
              LAMBDA piece : piece /= <<>>)

split_by_line_breaks(text) ==
    MapTrimNonEmpty(Split(Replace(Replace(text, Str_br_slash, <<NL>>), Str_br, <<NL>>), NL))

RECURSIVE LineWidths(_, _)
LineWidths(lines, font_size) ==
    IF lines = <<>> THEN <<>>
    ELSE <<text_width(Head(lines), font_size)>> \o LineWidths(Tail(lines), font_size)

\* The widest line, folded from 0.0.
max_line_width(lines, font_size) == FoldMax(0, LineWidths(lines, font_size))

calculate_text_box_width(lines, font_size, padding) ==
    max_line_width(lines, font_size) + padding

calculate_text_box_height(num_lines, line_height, padding) ==
    LET effective_lines == IF num_lines = 0 THEN 1 ELSE num_lines
    IN effective_lines * line_height + padding

\* ------------------------------------------------------ layout/bounds.rs

ContentBounds_new == [max_x |-> 0, max_y |-> 0]

\* A variant that takes the point as the new extent.
include_point_assign(b, x, y) == [max_x |-> x, max_y |-> y]

include_point(b, x, y) == [max_x |-> Max2(b.max_x, x), max_y |-> Max2(b.max_y, y)]

\* A variant that includes the rectangle's origin instead of its far corner.
include_rect_origin(b, x, y, width, height) == include_point(b, x, y)

include_rect(b, x, y, width, height) == include_point(b, x + width, y + height)

\* A variant that treats an anchor it does not know as "end".
include_text_unknown_as_end(b, x, y, tw, anchor) ==
    LET right_edge ==
            CASE anchor = "start" -> x + tw
              [] anchor = "middle" -> x + (tw \div 2)
              [] OTHER -> x
    IN include_point(b, right_edge, y)

include_text(b, x, y, tw, anchor) ==
    LET right_edge ==
            CASE anchor = "start" -> x + tw
              [] anchor = "middle" -> x + (tw \div 2)
              [] anchor = "end" -> x
              [] OTHER -> x + tw
    IN include_point(b, right_edge, y)

\* A variant that truncates instead of rounding up.
svg_size_floor(b, padding) ==
    <<AsU32((b.max_x + padding) \div Scale), AsU32((b.max_y + padding) \div Scale)>>

svg_size(b, padding) ==
    <<AsU32(Ceil(b.max_x + padding)), AsU32(Ceil(b.max_y + padding))>>

\* --------------------------------------------------------- svg/shapes.rs

LineStyles == {"Solid", "Dotted"}
EndStyles == {"None", "Closed", "Open", "Cross"}

\* The empty string, as a fragment.
EmptyFragment == [kind |-> "empty"]

create_line(x1, y1, x2, y2, stroke, style) ==
    [kind |-> "line", x1 |-> x1, y1 |-> y1, x2 |-> x2, y2 |-> y2, stroke |-> stroke,
     dash |-> IF style = "Dotted" THEN "5,5" ELSE ""]

\* Angles are kept as multiples of pi; the back vertices of an arrowhead are
\* a function of (x, y, angle) and are not expanded.
create_end_closed(x, y, angle, stroke) ==
    [kind |-> "polygon", x |-> x, y |-> y, angle |-> angle, fill |-> stroke]

create_end_open(x, y, angle, stroke) ==
    [kind |-> "open_head", x |-> x, y |-> y, angle |-> angle, stroke |-> stroke]

create_end_cross(x, y, stroke) ==
    [kind |-> "cross", x |-> x, y |-> y, stroke |-> stroke]

create_end(x, y, angle, stroke, style) ==
    CASE style = "None" -> EmptyFragment
      [] style = "Closed" -> create_end_closed(x, y, angle, stroke)
      [] style = "Open" -> create_end_open(x, y, angle, stroke)
      [] style = "Cross" -> create_end_cross(x, y, stroke)

\* f64::atan2(dy, dx) in multiples of pi, for the horizontal case dy = 0 the
\* renderer uses: 0 when dx >= 0 and pi when dx < 0.
Atan2Pi(dy, dx) == IF dx >= 0 THEN 0 ELSE 1

RECURSIVE FilterNonEmpty(_)
FilterNonEmpty(frags) ==
    IF frags = <<>> THEN <<>>
    ELSE (IF Head(frags) = EmptyFragment THEN <<>> ELSE <<Head(frags)>>)
         \o FilterNonEmpty(Tail(frags))

\* A variant that emits the start marker before the end marker.
create_arrow_start_first(x1, y1, x2, y2, stroke, line_style, start_end, end_end) ==
    LET line == create_line(x1, y1, x2, y2, stroke, line_style)
        angle == Atan2Pi(y2 - y1, x2 - x1)
        reverse_angle == angle + 1
        end_marker == create_end(x2, y2, angle, stroke, end_end)
        start_marker == create_end(x1, y1, reverse_angle, stroke, start_end)
    IN [kind |-> "arrow", parts |-> FilterNonEmpty(<<line, start_marker, end_marker>>)]

create_arrow(x1, y1, x2, y2, stroke, line_style, start_end, end_end) ==
    LET line == create_line(x1, y1, x2, y2, stroke, line_style)
        angle == Atan2Pi(y2 - y1, x2 - x1)
        reverse_angle == angle + 1
        end_marker == create_end(x2, y2, angle, stroke, end_end)
        start_marker == create_end(x1, y1, reverse_angle, stroke, start_end)
    IN [kind |-> "arrow", parts |-> FilterNonEmpty(<<line, end_marker, start_marker>>)]

create_self_loop(x, y, stroke, line_style) ==
    LET loop_width == Px(40)
        loop_height == Px(30)
    IN [kind |-> "self_loop",
        path |-> <<x, y, x + loop_width, y, x + loop_width, y + (loop_height \div 2),
                   x + loop_width, y + loop_height, x, y + loop_height>>,
        stroke |-> stroke,
        dash |-> IF line_style = "Dotted" THEN "5,5" ELSE "",
        polygon |-> <<x, y + loop_height, x + Px(8), y + loop_height - Px(5),
                      x + Px(8), y + loop_height + Px(5)>>,
        fill |-> stroke]

draw_rect(x, y, width, height, fill, stroke) ==
    [kind |-> "rect", x |-> x, y |-> y, width |-> width, height |-> height,
     fill |-> fill, stroke |-> stroke]

Str_amp == <<"&", "a", "m", "p", ";">>
Str_lt == <<"&", "l", "t", ";">>
Str_gt == <<"&", "g", "t", ";">>
Str_quot == <<"&", "q", "u", "o", "t", ";">>
Str_apos == <<"&", "a", "p", "o", "s", ";">>

\* A variant that escapes the ampersand last, after the other four.
escape_xml_amp_last(s) ==
    Replace(Replace(Replace(Replace(Replace(s, <<"<">>, Str_lt), <<">">>, Str_gt),
                            <<"\"">>, Str_quot), <<"'">>, Str_apos), <<"&">>, Str_amp)

escape_xml(s) ==
    Replace(Replace(Replace(Replace(Replace(s, <<"&">>, Str_amp), <<"<">>, Str_lt),
                            <<">">>, Str_gt), <<"\"">>, Str_quot), <<"'">>, Str_apos)

draw_text(x, y, text, fill, font_size, anchor) ==
    [kind |-> "text", x |-> x, y |-> y, fill |-> fill, font_size |-> font_size,
     font_family |-> "Arial, sans-serif", anchor |-> anchor, content |-> escape_xml(text)]

\* font_size * 0.35, in fixed-point units.
BaselineAdjustment(font_size) == (font_size * 35 * Scale) \div 100

draw_multiline_text(x, center_y, lines, fill, font_size, line_height, anchor) ==
    IF lines = <<>> THEN EmptyFragment
    ELSE LET baseline_adjustment == BaselineAdjustment(font_size)
             total_height == (Len(lines) - 1) * line_height
             start_y == center_y - (total_height \div 2) + baseline_adjustment
         IN [kind |-> "multiline",
             texts |-> [i \in 1..Len(lines) |->
                          [kind |-> "text", x |-> x, y |-> start_y + (i - 1) * line_height,
                           fill |-> fill, font_size |-> font_size,
                           font_family |-> "Arial, sans-serif", anchor |-> anchor,
                           content |-> escape_xml(lines[i])]]]

\* -------------------------------------------------------------- options.rs

Themes == {"Light", "Dark"}

ThemeColors_light ==
    [background |-> "#ffffff", text |-> "#333333", line |-> "#333333",
     participant_bg |-> "#ecf0f1", participant_border |-> "#333333"]

ThemeColors_dark ==
    [background |-> "#1a1a2e", text |-> "#eaeaea", line |-> "#eaeaea",
     participant_bg |-> "#16213e", participant_border |-> "#eaeaea"]

\* RenderOptions::colors
colors_of(options) ==
    IF options.theme = "Light" THEN ThemeColors_light ELSE ThemeColors_dark

\* -------------------------------------------------------- svg/builder.rs

SvgBuilder_new(width, height, colors, transparent) ==
    [width |-> width, height |-> height, elements |-> <<>>, colors |-> colors,
     transparent |-> transparent]

add_element(b, element) == [b EXCEPT !.elements = Append(@, element)]

\* A piece of literal text of the document template.
Lit(s) == [kind |-> "lit", s |-> s]

\* [String]::join: the fragments with the separator between neighbours.
RECURSIVE Join(_, _)
Join(elements, sep) ==
    IF elements = <<>> THEN <<>>
    ELSE IF Len(elements) = 1 THEN elements
    ELSE <<Head(elements), sep>> \o Join(Tail(elements), sep)

SvgOpen(width, height, vb_width, vb_height) ==
    [kind |-> "svg_open", xmlns |-> "http://www.w3.org/2000/svg", width |-> width,
     height |-> height, viewBox |-> <<0, 0, vb_width, vb_height>>]

SvgClose == [kind |-> "svg_close"]

BackgroundRect(fill) ==
    [kind |-> "background", width |-> "100%", height |-> "100%", fill |-> fill]

\* A variant that emits the background whatever the flag says.
Display_always_background(b) ==
    LET elements_str == Join(b.elements, Lit("\n  "))
    IN <<SvgOpen(b.width, b.height, b.width, b.height), Lit("\n  "),
         BackgroundRect(b.colors.background), Lit("\n  ")>>
       \o elements_str \o <<Lit("\n"), SvgClose>>

\* A variant whose view box takes the height for the width.
Display_swapped_view_box(b) ==
    LET elements_str == Join(b.elements, Lit("\n  "))
        background == IF b.transparent THEN <<>> ELSE <<BackgroundRect(b.colors.background)>>
    IN IF background = <<>>
       THEN <<SvgOpen(b.width, b.height, b.height, b.width), Lit("\n  ")>>
            \o elements_str \o <<Lit("\n"), SvgClose>>
       ELSE <<SvgOpen(b.width, b.height, b.height, b.width), Lit("\n  ")>>
            \o background \o <<Lit("\n  ")>> \o elements_str \o <<Lit("\n"), SvgClose>>

\* impl Display for SvgBuilder: the document as the sequence of its pieces.
Display(b) ==
    LET elements_str == Join(b.elements, Lit("\n  "))
        background == IF b.transparent THEN <<>> ELSE <<BackgroundRect(b.colors.background)>>
    IN IF background = <<>>
       THEN <<SvgOpen(b.width, b.height, b.width, b.height), Lit("\n  ")>>
            \o elements_str \o <<Lit("\n"), SvgClose>>
       ELSE <<SvgOpen(b.width, b.height, b.width, b.height), Lit("\n  ")>>
            \o background \o <<Lit("\n  ")>> \o elements_str \o <<Lit("\n"), SvgClose>>

\* ---------------------------------------------------- sequence/layout.rs

\* Option<String>.
NoAlias == [some |-> FALSE, text |-> <<>>]
SomeAlias(t) == [some |-> TRUE, text |-> t]

\* Option<usize> / Option<f64>: None, or Some(v).
None == [some |-> FALSE, v |-> 0]
Some(v) == [some |-> TRUE, v |-> v]

get_participant_lines(participant) ==
    split_by_line_breaks(IF participant.alias.some THEN participant.alias.text
                         ELSE participant.actor)

calculate_participant_width(lines, font_size) ==
    Max2(calculate_text_box_width(lines, font_size, Px(PARTICIPANT_PADDING)),
         Px(MIN_PARTICIPANT_WIDTH))

calculate_participant_height(num_lines) ==
    Max2(calculate_text_box_height(num_lines, Px(LINE_HEIGHT), Px(PARTICIPANT_VERTICAL_PADDING)),
         Px(MIN_PARTICIPANT_HEIGHT))

calculate_participant_dimensions(parts, font_size) ==
    LET all_lines == [i \in 1..Len(parts) |-> get_participant_lines(parts[i])]
    IN [widths |-> [i \in 1..Len(parts) |-> calculate_participant_width(all_lines[i], font_size)],
        heights |-> [i \in 1..Len(parts) |-> calculate_participant_height(Len(all_lines[i]))],
        lines |-> all_lines]

\* A variant that resolves a name to the first participant whose actor name
\* starts with it.
find_participant_index_prefix(parts, name) ==
    IF \E i \in 1..Len(parts) : IsPrefix(name, parts[i].actor)
    THEN Some(CHOOSE i \in 1..Len(parts) :
                  /\ IsPrefix(name, parts[i].actor)
                  /\ \A j \in 1..(i - 1) : ~IsPrefix(name, parts[j].actor))
    ELSE None

\* Indices are 1-based here: Some(i) is the code's Some(i - 1).
find_participant_index(parts, name) ==
    IF \E i \in 1..Len(parts) : parts[i].actor = name
    THEN Some(CHOOSE i \in 1..Len(parts) :
                  /\ parts[i].actor = name
                  /\ \A j \in 1..(i - 1) : parts[j].actor /= name)
    ELSE None

\* layout.rs 60-70: the uniform box size and the uniform widths vector.
uniform_width(dims) == FoldMax(Px(MIN_PARTICIPANT_WIDTH), dims.widths)

uniform_height(dims) == FoldMax(Px(MIN_PARTICIPANT_HEIGHT), dims.heights)

\* A variant that keeps each participant's own width.
uniform_widths_own(dims, n) == [i \in 1..n |-> dims.widths[i]]

uniform_widths(dims, n) == [i \in 1..n |-> uniform_width(dims)]

\* layout.rs 201-207: the initial gaps.
initial_spacings(participant_widths, num_gaps) ==
    [i \in 1..num_gaps |->
        (participant_widths[i] \div 2) + Px(MIN_PARTICIPANT_SPACING)
        + (participant_widths[i + 1] \div 2)]

IsMessage(statement) == statement.type = "Message"

\* A variant that asks for the label's width alone, without the margin.
required_width_no_margin(msg, font_size) == text_width(msg.text, font_size)

required_width(msg, font_size) == text_width(msg.text, font_size) + Px(MESSAGE_TEXT_MARGIN)

\* The gaps a message crosses: the slice spacings[min_idx..max_idx], which in
\* 1-based participant indices lo < hi is the gaps lo..hi-1.
current_span(spacings, lo, hi) == SumSeq(SubSeq(spacings, lo, hi - 1))

\* A variant in which a self-message makes room for its label in the gap to
\* the right of its participant.
gap_step_self_widens(spacings, parts, statement, font_size) ==
    IF ~IsMessage(statement) THEN spacings
    ELSE LET from_idx == find_participant_index(parts, statement.from)
             to_idx == find_participant_index(parts, statement.to)
         IN IF ~(from_idx.some /\ to_idx.some) THEN spacings
            ELSE LET min_idx == IF from_idx.v < to_idx.v THEN from_idx.v ELSE to_idx.v
                     max_idx == IF statement.from = statement.to THEN min_idx + 1
                                ELSE IF from_idx.v < to_idx.v THEN to_idx.v ELSE from_idx.v
                     required == required_width(statement, font_size)
                     span == current_span(spacings, min_idx,
                                          IF max_idx - 1 > Len(spacings)
                                          THEN Len(spacings) + 1 ELSE max_idx)
                 IN IF required > span
                    THEN [i \in 1..Len(spacings) |->
                            IF min_idx <= i /\ i < max_idx
                            THEN spacings[i] + ((required - span) \div (max_idx - min_idx))
                            ELSE spacings[i]]
                    ELSE spacings

\* A variant that adds the whole deficit to every spanned gap.
gap_step_undivided(spacings, parts, statement, font_size) ==
    IF ~IsMessage(statement) THEN spacings
    ELSE IF statement.from = statement.to THEN spacings
    ELSE LET from_idx == find_participant_index(parts, statement.from)
             to_idx == find_participant_index(parts, statement.to)
         IN IF ~(from_idx.some /\ to_idx.some) THEN spacings
            ELSE LET min_idx == IF from_idx.v < to_idx.v THEN from_idx.v ELSE to_idx.v
                     max_idx == IF from_idx.v < to_idx.v THEN to_idx.v ELSE from_idx.v
                     required == required_width(statement, font_size)
                     span == current_span(spacings, min_idx, max_idx)
                 IN IF required > span
                    THEN [i \in 1..Len(spacings) |->
                            IF min_idx <= i /\ i < max_idx
                            THEN spacings[i] + (required - span)
                            ELSE spacings[i]]
                    ELSE spacings

\* A variant that overwrites the spanned gaps with the message's share instead
\* of growing them.
gap_step_overwrite(spacings, parts, statement, font_size) ==
    IF ~IsMessage(statement) THEN spacings
    ELSE IF statement.from = statement.to THEN spacings
    ELSE LET from_idx == find_participant_index(parts, statement.from)
             to_idx == find_participant_index(parts, statement.to)
         IN IF ~(from_idx.some /\ to_idx.some) THEN spacings
            ELSE LET min_idx == IF from_idx.v < to_idx.v THEN from_idx.v ELSE to_idx.v
                     max_idx == IF from_idx.v < to_idx.v THEN to_idx.v ELSE from_idx.v
                     required == required_width(statement, font_size)
                 IN [i \in 1..Len(spacings) |->
                        IF min_idx <= i /\ i < max_idx
                        THEN required \div (max_idx - min_idx)
                        ELSE spacings[i]]

\* layout.rs 209-245: one iteration of the statement loop.
gap_step(spacings, parts, statement, font_size) ==
    IF ~IsMessage(statement) THEN spacings
    ELSE IF statement.from = statement.to THEN spacings
    ELSE LET from_idx == find_participant_index(parts, statement.from)
             to_idx == find_participant_index(parts, statement.to)
         IN IF ~(from_idx.some /\ to_idx.some) THEN spacings
            ELSE LET min_idx == IF from_idx.v < to_idx.v THEN from_idx.v ELSE to_idx.v
                     max_idx == IF from_idx.v < to_idx.v THEN to_idx.v ELSE from_idx.v
                     required == required_width(statement, font_size)
                     span == current_span(spacings, min_idx, max_idx)
                 IN IF required > span
                    THEN LET extra == required - span
                             gaps_count == max_idx - min_idx
                             extra_per_gap == extra \div gaps_count
                         IN [i \in 1..Len(spacings) |->
                                IF min_idx <= i /\ i < max_idx
                                THEN spacings[i] + extra_per_gap
                                ELSE spacings[i]]
                    ELSE spacings

RECURSIVE gap_loop(_, _, _, _)
gap_loop(spacings, parts, statements, font_size) ==
    IF statements = <<>> THEN spacings
    ELSE gap_loop(gap_step(spacings, parts, Head(statements), font_size), parts,
                  Tail(statements), font_size)

num_gaps_of(parts) == IF Len(parts) = 0 THEN 0 ELSE Len(parts) - 1

calculate_gap_spacings(parts, participant_widths, statements, font_size) ==
    IF num_gaps_of(parts) = 0 THEN <<>>
    ELSE gap_loop(initial_spacings(participant_widths, num_gaps_of(parts)), parts,
                  statements, font_size)

\* A variant that starts at the first box's half width, without the padding.
first_center_x_no_padding(participant_widths) ==
    (IF participant_widths = <<>> THEN Px(MIN_PARTICIPANT_WIDTH)
     ELSE participant_widths[1]) \div 2

\* layout.rs 257-262: the first centre.
first_center_x(participant_widths) ==
    Px(PADDING) + ((IF participant_widths = <<>> THEN Px(MIN_PARTICIPANT_WIDTH)
                    ELSE participant_widths[1]) \div 2)

\* center_x of participant i: the first centre plus the gaps before i that exist.
center_x_at(i, participant_widths, gap_spacings) ==
    first_center_x(participant_widths)
    + SumSeq(SubSeq(gap_spacings, 1, IF i - 1 <= Len(gap_spacings)
                                     THEN i - 1 ELSE Len(gap_spacings)))

calculate_participant_layouts(parts, participant_widths, participant_lines, gap_spacings) ==
    [i \in 1..Len(parts) |->
        [name |-> parts[i].actor,
         lines |-> IF i <= Len(participant_lines) THEN participant_lines[i]
                   ELSE <<parts[i].actor>>,
         center_x |-> center_x_at(i, participant_widths, gap_spacings),
         width |-> IF i <= Len(participant_widths) THEN participant_widths[i]
                   ELSE Px(MIN_PARTICIPANT_WIDTH)]]

left_edge(p) == p.center_x - (p.width \div 2)

\* A variant that falls back to x = 0 for a name it does not find.
find_participant_center_or_zero(layouts, name) ==
    IF \E i \in 1..Len(layouts) : layouts[i].name = name
    THEN Some(layouts[CHOOSE i \in 1..Len(layouts) :
                  /\ layouts[i].name = name
                  /\ \A j \in 1..(i - 1) : layouts[j].name /= name].center_x)
    ELSE Some(0)

find_participant_center(layouts, name) ==
    IF \E i \in 1..Len(layouts) : layouts[i].name = name
    THEN Some(layouts[CHOOSE i \in 1..Len(layouts) :
                  /\ layouts[i].name = name
                  /\ \A j \in 1..(i - 1) : layouts[j].name /= name].center_x)
    ELSE None

\* layout.rs 52-67: the top box and top label of one participant.
top_bounds_step(b, p, participant_height, font_size) ==
    include_text(include_rect(b, left_edge(p), Px(PADDING), p.width, participant_height),
                 p.center_x, Px(PADDING) + participant_height,
                 max_line_width(p.lines, font_size), "middle")

RECURSIVE top_bounds_loop(_, _, _, _)
top_bounds_loop(b, layouts, participant_height, font_size) ==
    IF layouts = <<>> THEN b
    ELSE top_bounds_loop(top_bounds_step(b, Head(layouts), participant_height, font_size),
                         Tail(layouts), participant_height, font_size)

\* A variant whose bounds pass advances past a self-message by the message
\* spacing alone.
layout_self_advance_short == Px(MESSAGE_SPACING)

\* layout.rs 92 and 102: the cursor's advance in the bounds pass.
layout_self_advance == Px(MESSAGE_SPACING) + Px(SELF_MESSAGE_HEIGHT)

layout_message_advance == Px(MESSAGE_SPACING)

\* A variant that takes the minimum box height for the uniform one.
first_message_y_min_height(participant_height) ==
    Px(PADDING) + Px(MIN_PARTICIPANT_HEIGHT) + Px(MESSAGE_SPACING)

first_message_y(participant_height) ==
    Px(PADDING) + participant_height + Px(MESSAGE_SPACING)

\* layout.rs 72-106: one iteration of the statement loop of the bounds pass,
\* on st = [bounds, message_y].
message_bounds_step(st, layouts, statement, font_size) ==
    IF ~IsMessage(statement) THEN st
    ELSE LET from_x == find_participant_center(layouts, statement.from)
             to_x == find_participant_center(layouts, statement.to)
             message_y == st.message_y
         IN IF ~(from_x.some /\ to_x.some) THEN st
            ELSE LET fx == from_x.v
                     tx == to_x.v
                     msg_width == text_width(statement.text, font_size)
                 IN IF statement.from = statement.to
                    THEN [bounds |->
                             include_text(
                                 include_point(st.bounds, fx + Px(SELF_LOOP_WIDTH),
                                               message_y + Px(SELF_MESSAGE_HEIGHT)),
                                 fx + Px(SELF_LOOP_TEXT_OFFSET),
                                 message_y + Px(SELF_MESSAGE_HEIGHT), msg_width, "start"),
                          message_y |-> message_y + layout_self_advance]
                    ELSE [bounds |->
                             include_text(include_point(st.bounds, Max2(fx, tx), message_y),
                                          (fx + tx) \div 2, message_y, msg_width, "middle"),
                          message_y |-> message_y + layout_message_advance]

RECURSIVE message_bounds_loop(_, _, _, _)
message_bounds_loop(st, layouts, statements, font_size) ==
    IF statements = <<>> THEN st
    ELSE message_bounds_loop(message_bounds_step(st, layouts, Head(statements), font_size),
                             layouts, Tail(statements), font_size)

\* layout.rs 110-124: the bottom box and bottom label of one participant.
bottom_bounds_step(b, p, bottom_box_y, participant_height, font_size) ==
    include_text(include_rect(b, left_edge(p), bottom_box_y, p.width, participant_height),
                 p.center_x, bottom_box_y + participant_height,
                 max_line_width(p.lines, font_size), "middle")

RECURSIVE bottom_bounds_loop(_, _, _, _, _)
bottom_bounds_loop(b, layouts, bottom_box_y, participant_height, font_size) ==
    IF layouts = <<>> THEN b
    ELSE bottom_bounds_loop(
             bottom_bounds_step(b, Head(layouts), bottom_box_y, participant_height, font_size),
             Tail(layouts), bottom_box_y, participant_height, font_size)

calculate_layout(d, font_size) ==
    LET dims == calculate_participant_dimensions(d.participants, font_size)
        participant_height == uniform_height(dims)
        widths == uniform_widths(dims, Len(d.participants))
        gap_spacings == calculate_gap_spacings(d.participants, widths, d.statements, font_size)
        layouts == calculate_participant_layouts(d.participants, widths, dims.lines, gap_spacings)
        top == top_bounds_loop(ContentBounds_new, layouts, participant_height, font_size)
        st == message_bounds_loop([bounds |-> top,
                                   message_y |-> first_message_y(participant_height)],
                                  layouts, d.statements, font_size)
        bottom_box_y == st.message_y
    IN [bounds |-> bottom_bounds_loop(st.bounds, layouts, bottom_box_y, participant_height,
                                      font_size),
        participants |-> layouts,
        participant_height |-> participant_height,
        bottom_box_y |-> bottom_box_y]

\* ---------------------------------------------------- sequence/render.rs

ArrowTypes ==
    {"SolidOpen", "SolidClosed", "Cross", "Point", "BiDirectionalSolid", "DottedOpen",
     "DottedClosed", "BiDirectionalDotted"}

\* A variant that gives the async arrow (Point) a closed head.
arrow_type_to_styles_point_closed(arrow_type) ==
    CASE arrow_type = "SolidOpen" -> <<"Solid", "None", "None">>
      [] arrow_type = "SolidClosed" -> <<"Solid", "None", "Closed">>
      [] arrow_type = "Cross" -> <<"Solid", "None", "Cross">>
      [] arrow_type = "Point" -> <<"Solid", "None", "Closed">>
      [] arrow_type = "BiDirectionalSolid" -> <<"Solid", "Closed", "Closed">>
      [] arrow_type = "DottedOpen" -> <<"Dotted", "None", "None">>
      [] arrow_type = "DottedClosed" -> <<"Dotted", "None", "Closed">>
      [] arrow_type = "BiDirectionalDotted" -> <<"Dotted", "Closed", "Closed">>

\* <<line style, start marker, end marker>>
arrow_type_to_styles(arrow_type) ==
    CASE arrow_type = "SolidOpen" -> <<"Solid", "None", "None">>
      [] arrow_type = "SolidClosed" -> <<"Solid", "None", "Closed">>
      [] arrow_type = "Cross" -> <<"Solid", "None", "Cross">>
      [] arrow_type = "Point" -> <<"Solid", "None", "Open">>
      [] arrow_type = "BiDirectionalSolid" -> <<"Solid", "Closed", "Closed">>
      [] arrow_type = "DottedOpen" -> <<"Dotted", "None", "None">>
      [] arrow_type = "DottedClosed" -> <<"Dotted", "None", "Closed">>
      [] arrow_type = "BiDirectionalDotted" -> <<"Dotted", "Closed", "Closed">>

\* A variant that does not count the two-headed dotted arrow as dotted.
is_dotted_arrow_one_headed(arrow_type) ==
    arrow_type \in {"DottedOpen", "DottedClosed"}

is_dotted_arrow(arrow_type) ==
    arrow_type \in {"DottedOpen", "DottedClosed", "BiDirectionalDotted"}

\* render.rs 36-57, 81-102: a participant's name at a box centre.
draw_participant_name(p, center_y, colors, font_size) ==
    IF Len(p.lines) = 1
    THEN draw_text(p.center_x, center_y + Px(5), p.lines[1], colors.text, font_size, "middle")
    ELSE draw_multiline_text(p.center_x, center_y, p.lines, colors.text, font_size,
                             Px(LINE_HEIGHT), "middle")

\* A variant that draws the lifeline before the top label.
draw_participant_step_lifeline_first(b, p, options, participant_height, bottom_box_y) ==
    LET colors == colors_of(options)
        b1 == add_element(b, draw_rect(left_edge(p), Px(PADDING), p.width, participant_height,
                                       colors.participant_bg, colors.participant_border))
        b2 == add_element(b1, create_line(p.center_x, Px(PADDING) + participant_height,
                                          p.center_x, bottom_box_y, colors.line, "Solid"))
        b3 == add_element(b2, draw_participant_name(p, Px(PADDING) + (participant_height \div 2),
                                                    colors, options.font_size))
        b4 == add_element(b3, draw_rect(left_edge(p), bottom_box_y, p.width, participant_height,
                                        colors.participant_bg, colors.participant_border))
    IN add_element(b4, draw_participant_name(p, bottom_box_y + (participant_height \div 2),
                                             colors, options.font_size))

\* render.rs 25-103: one iteration of the participant loop.
draw_participant_step(b, p, options, participant_height, bottom_box_y) ==
    LET colors == colors_of(options)
        b1 == add_element(b, draw_rect(left_edge(p), Px(PADDING), p.width, participant_height,
                                       colors.participant_bg, colors.participant_border))
        b2 == add_element(b1, draw_participant_name(p, Px(PADDING) + (participant_height \div 2),
                                                    colors, options.font_size))
        b3 == add_element(b2, create_line(p.center_x, Px(PADDING) + participant_height,
                                          p.center_x, bottom_box_y, colors.line, "Solid"))
        b4 == add_element(b3, draw_rect(left_edge(p), bottom_box_y, p.width, participant_height,
                                        colors.participant_bg, colors.participant_border))
    IN add_element(b4, draw_participant_name(p, bottom_box_y + (participant_height \div 2),
                                             colors, options.font_size))

RECURSIVE draw_participants(_, _, _, _, _)
draw_participants(b, layouts, options, participant_height, bottom_box_y) ==
    IF layouts = <<>> THEN b
    ELSE draw_participants(
             draw_participant_step(b, Head(layouts), options, participant_height, bottom_box_y),
             Tail(layouts), options, participant_height, bottom_box_y)

\* A variant whose self-message advance forgets the loop's height.
draw_self_advance_short == Px(MESSAGE_SPACING)

\* render.rs 149 and 175: the cursor's advance in the draw pass.
draw_self_advance == Px(MESSAGE_SPACING) + Px(SELF_MESSAGE_HEIGHT)

\* A variant whose draw pass advances past a regular message by twice the
\* message spacing.
draw_message_advance_double == 2 * Px(MESSAGE_SPACING)

draw_message_advance == Px(MESSAGE_SPACING)

\* A variant that draws a self-message's loop and label without looking at
\* bottom_box_y.
draw_message_step_always_draws(st, layouts, statement, options, bottom_box_y) ==
    IF ~IsMessage(statement) THEN st
    ELSE LET colors == colors_of(options)
             from_x == find_participant_center(layouts, statement.from)
             to_x == find_participant_center(layouts, statement.to)
             message_y == st.message_y
         IN IF ~(from_x.some /\ to_x.some) THEN st
            ELSE LET fx == from_x.v
                     tx == to_x.v
                 IN IF statement.from = statement.to
                    THEN [builder |->
                            add_element(
                              add_element(st.builder,
                                create_self_loop(fx, message_y, colors.line,
                                  IF is_dotted_arrow(statement.arrow_type)
                                  THEN "Dotted" ELSE "Solid")),
                              draw_text(fx + Px(SELF_LOOP_TEXT_OFFSET),
                                        message_y + (Px(SELF_MESSAGE_HEIGHT) \div 2),
                                        statement.text, colors.text, options.font_size,
                                        "start")),
                          message_y |-> message_y + draw_self_advance]
                    ELSE LET styles == arrow_type_to_styles(statement.arrow_type)
                         IN [builder |->
                               add_element(
                                 add_element(st.builder,
                                   create_arrow(fx, message_y, tx, message_y, colors.line,
                                                styles[1], styles[2], styles[3])),
                                 draw_text((fx + tx) \div 2, message_y - Px(10), statement.text,
                                           colors.text, options.font_size, "middle")),
                             message_y |-> message_y + draw_message_advance]

\* render.rs 118-179: one iteration of the statement loop of the draw pass,
\* on st = [builder, message_y].
draw_message_step(st, layouts, statement, options, bottom_box_y) ==
    IF ~IsMessage(statement) THEN st
    ELSE LET colors == colors_of(options)
             from_x == find_participant_center(layouts, statement.from)
             to_x == find_participant_center(layouts, statement.to)
             message_y == st.message_y
         IN IF ~(from_x.some /\ to_x.some) THEN st
            ELSE LET fx == from_x.v
                     tx == to_x.v
                 IN IF statement.from = statement.to
                    THEN [builder |->
                            IF message_y + Px(SELF_MESSAGE_HEIGHT) <= bottom_box_y
                            THEN add_element(
                                   add_element(st.builder,
                                     create_self_loop(fx, message_y, colors.line,
                                       IF is_dotted_arrow(statement.arrow_type)
                                       THEN "Dotted" ELSE "Solid")),
                                   draw_text(fx + Px(SELF_LOOP_TEXT_OFFSET),
                                             message_y + (Px(SELF_MESSAGE_HEIGHT) \div 2),
                                             statement.text, colors.text, options.font_size,
                                             "start"))
                            ELSE st.builder,
                          message_y |-> message_y + draw_self_advance]
                    ELSE LET styles == arrow_type_to_styles(statement.arrow_type)
                         IN [builder |->
                               add_element(
                                 add_element(st.builder,
                                   create_arrow(fx, message_y, tx, message_y, colors.line,
                                                styles[1], styles[2], styles[3])),
                                 draw_text((fx + tx) \div 2, message_y - Px(10), statement.text,
                                           colors.text, options.font_size, "middle")),
                             message_y |-> message_y + draw_message_advance]

RECURSIVE draw_messages_loop(_, _, _, _, _)
draw_messages_loop(st, layouts, statements, options, bottom_box_y) ==
    IF statements = <<>> THEN st
    ELSE draw_messages_loop(draw_message_step(st, layouts, Head(statements), options, bottom_box_y),
                            layouts, Tail(statements), options, bottom_box_y)

draw_messages(b, d, layouts, options, participant_height, bottom_box_y) ==
    draw_messages_loop([builder |-> b, message_y |-> first_message_y(participant_height)],
                       layouts, d.statements, options, bottom_box_y).builder

\* ------------------------------------------------------- sequence/mod.rs

Ok(v) == [ok |-> TRUE, value |-> v]

render(d, options) ==
    LET colors == colors_of(options)
        layout == calculate_layout(d, options.font_size)
        size == svg_size(layout.bounds, Px(PADDING))
        b0 == SvgBuilder_new(size[1], size[2], colors, options.transparent_bg)
        b1 == draw_participants(b0, layout.participants, options, layout.participant_height,
                                layout.bottom_box_y)
        b2 == draw_messages(b1, d, layout.participants, options, layout.participant_height,
                            layout.bottom_box_y)
    IN Ok(Display(b2))

\* ----------------------------------------------------------------- inputs

\* The participants a diagram is built from: a bare actor name, a wide
\* two-line alias, a narrow three-line alias.
ParticipantPool ==
    {[actor |-> <<"A">>, alias |-> NoAlias],
     [actor |-> <<"B">>, alias |-> SomeAlias(Rep("W", 7) \o Str_br_slash \o <<" ", "i", " ">>)],
     [actor |-> <<"C">>, alias |-> SomeAlias(<<"x">> \o Str_br \o <<"y", NL, "z">>)]}

\* A name no participant of the pool carries.
UnknownName == <<"X">>

\* Message labels: a short one, and one wider than two default gaps.
Labels == {<<"H", "i">>, Rep("W", 25)}

ParticipantLists ==
    {ps \in UNION {[1..n -> ParticipantPool] : n \in 0..MaxParticipants} :
        \A i, j \in 1..Len(ps) : i /= j => ps[i].actor /= ps[j].actor}

\* The names a message of a diagram may carry: its participants' and an
\* unknown one (names outside the diagram are all alike to the renderer).
NamesFor(ps) == {ps[i].actor : i \in 1..Len(ps)} \cup {UnknownName}

\* The arrow kinds of the diagrams explored.
DiagramArrowTypes == {"SolidClosed"}

\* A statement that is not a message.
OtherStatement == [type |-> "Other"]

StatementsFor(ps) ==
    [type : {"Message"}, from : NamesFor(ps), to : NamesFor(ps), text : Labels,
     arrow_type : DiagramArrowTypes] \cup {OtherStatement}

Diagrams ==
    UNION {{[participants |-> ps, statements |-> ss] :
              ss \in UNION {[1..n -> StatementsFor(ps)] : n \in 0..MaxStatements}} :
           ps \in ParticipantLists}

FontSizes == {14}

\* RenderOptions::default's font family, and another one.
FontFamilies == {"Arial, sans-serif", "monospace"}

\* Options differing in theme and background; the font family is the default.
OptionsSet ==
    [theme : Themes, font_size : FontSizes, font_family : {"Arial, sans-serif"},
     transparent_bg : BOOLEAN]

\* ------------------------------------------------------------------ state

VARIABLES
    pc,                  \* where the call is
    diagram,             \* the SequenceDiagram rendered
    options,             \* the RenderOptions
    participant_lines,   \* calculate_layout: display lines per participant
    participant_widths,  \* calculate_layout: uniform_widths
    participant_height,  \* calculate_layout: the uniform box height
    spacings,            \* calculate_gap_spacings: the gaps
    gap_i,               \* calculate_gap_spacings: statements processed
    participants,        \* Layout.participants
    bounds,              \* calculate_layout: the bounds tracker
    message_y,           \* calculate_layout: the vertical cursor
    stmt_i,              \* calculate_layout: statements processed
    bottom_box_y,        \* Layout.bottom_box_y
    builder,             \* the SvgBuilder
    draw_y,              \* draw_messages: the vertical cursor
    draw_i,              \* draw_messages: statements processed
    result               \* what render returned

vars ==
    <<pc, diagram, options, participant_lines, participant_widths, participant_height,
      spacings, gap_i, participants, bounds, message_y, stmt_i, bottom_box_y, builder,
      draw_y, draw_i, result>>

inputVars == <<diagram, options>>
dimVars == <<participant_lines, participant_widths, participant_height>>
gapVars == <<spacings, gap_i>>
boundsVars == <<bounds, message_y, stmt_i>>
drawVars == <<draw_y, draw_i>>

NoResult == [returned |-> FALSE, ok |-> FALSE, value |-> <<>>]
Returned(r) == [returned |-> TRUE, ok |-> r.ok, value |-> r.value]

NoBuilder == SvgBuilder_new(0, 0, ThemeColors_light, FALSE)

LayoutLocals0 ==
    /\ participant_lines = <<>>
    /\ participant_widths = <<>>
    /\ participant_height = 0
    /\ spacings = <<>>
    /\ gap_i = 0
    /\ participants = <<>>
    /\ bounds = ContentBounds_new
    /\ message_y = 0
    /\ stmt_i = 0
    /\ bottom_box_y = 0
    /\ draw_y = 0
    /\ draw_i = 0

Locals0 ==
    /\ LayoutLocals0
    /\ builder = NoBuilder
    /\ result = NoResult

\* sequence::render is called with a diagram and options.
Init ==
    /\ pc = "calculate_layout"
    /\ diagram \in Diagrams
    /\ options \in OptionsSet
    /\ Locals0

NumStatements == Len(diagram.statements)

\* layout.rs 14-32: dimensions and the uniform box size.
CalculateDimensions ==
    /\ pc = "calculate_layout"
    /\ LET dims == calculate_participant_dimensions(diagram.participants, options.font_size)
       IN /\ participant_lines' = dims.lines
          /\ participant_widths' = uniform_widths(dims, Len(diagram.participants))
          /\ participant_height' = uniform_height(dims)
    /\ pc' = "calculate_gap_spacings"
    /\ UNCHANGED <<inputVars, gapVars, participants, boundsVars, bottom_box_y, builder,
                   drawVars, result>>

\* layout.rs 189-207: no gaps, or the initial gaps.
GapSpacingsBegin ==
    /\ pc = "calculate_gap_spacings"
    /\ IF num_gaps_of(diagram.participants) = 0
       THEN /\ spacings' = <<>>
            /\ gap_i' = 0
            /\ pc' = "calculate_participant_layouts"
       ELSE /\ spacings' = initial_spacings(participant_widths,
                                            num_gaps_of(diagram.participants))
            /\ gap_i' = 0
            /\ pc' = IF NumStatements = 0 THEN "calculate_participant_layouts" ELSE "gap_loop"
    /\ UNCHANGED <<inputVars, dimVars, participants, boundsVars, bottom_box_y, builder,
                   drawVars, result>>

\* layout.rs 209-245: the next statement of the gap loop.
GapSpacingsStep ==
    /\ pc = "gap_loop"
    /\ gap_i < NumStatements
    /\ spacings' = gap_step(spacings, diagram.participants, diagram.statements[gap_i + 1],
                            options.font_size)
    /\ gap_i' = gap_i + 1
    /\ pc' = IF gap_i + 1 = NumStatements THEN "calculate_participant_layouts" ELSE "gap_loop"
    /\ UNCHANGED <<inputVars, dimVars, participants, boundsVars, bottom_box_y, builder,
                   drawVars, result>>

\* layout.rs 43-70: placement, the top boxes' bounds, the cursor's start.
PlaceParticipants ==
    /\ pc = "calculate_participant_layouts"
    /\ LET layouts == calculate_participant_layouts(diagram.participants, participant_widths,
                                                    participant_lines, spacings)
       IN /\ participants' = layouts
          /\ bounds' = top_bounds_loop(ContentBounds_new, layouts, participant_height,
                                       options.font_size)
    /\ message_y' = first_message_y(participant_height)
    /\ stmt_i' = 0
    /\ pc' = IF NumStatements = 0 THEN "bottom_boxes" ELSE "message_bounds"
    /\ UNCHANGED <<inputVars, dimVars, gapVars, bottom_box_y, builder, drawVars, result>>

\* layout.rs 72-106: the next statement of the bounds pass.
MessageBoundsStep ==
    /\ pc = "message_bounds"
    /\ stmt_i < NumStatements
    /\ LET st == message_bounds_step([bounds |-> bounds, message_y |-> message_y], participants,
                                     diagram.statements[stmt_i + 1], options.font_size)
       IN /\ bounds' = st.bounds
          /\ message_y' = st.message_y
    /\ stmt_i' = stmt_i + 1
    /\ pc' = IF stmt_i + 1 = NumStatements THEN "bottom_boxes" ELSE "message_bounds"
    /\ UNCHANGED <<inputVars, dimVars, gapVars, participants, bottom_box_y, builder, drawVars,
                   result>>

\* layout.rs 108-131: the bottom boxes' bounds and the Layout returned.
FinishLayout ==
    /\ pc = "bottom_boxes"
    /\ bottom_box_y' = message_y
    /\ bounds' = bottom_bounds_loop(bounds, participants, message_y, participant_height,
                                    options.font_size)
    /\ pc' = "new_builder"
    /\ UNCHANGED <<inputVars, dimVars, gapVars, participants, message_y, stmt_i, builder,
                   drawVars, result>>

\* mod.rs 20-27: the canvas size and the builder.
NewBuilder ==
    /\ pc = "new_builder"
    /\ LET size == svg_size(bounds, Px(PADDING))
       IN builder' = SvgBuilder_new(size[1], size[2], colors_of(options), options.transparent_bg)
    /\ pc' = "draw_participants"
    /\ UNCHANGED <<inputVars, dimVars, gapVars, participants, boundsVars, bottom_box_y,
                   drawVars, result>>

\* render.rs 16-104 and 115-116: all participants, then the draw cursor's start.
DrawParticipants ==
    /\ pc = "draw_participants"
    /\ builder' = draw_participants(builder, participants, options, participant_height,
                                    bottom_box_y)
    /\ draw_y' = first_message_y(participant_height)
    /\ draw_i' = 0
    /\ pc' = IF NumStatements = 0 THEN "to_string" ELSE "draw_messages"
    /\ UNCHANGED <<inputVars, dimVars, gapVars, participants, boundsVars, bottom_box_y, result>>

\* render.rs 118-179: the next statement of the draw pass.
DrawMessageStep ==
    /\ pc = "draw_messages"
    /\ draw_i < NumStatements
    /\ LET st == draw_message_step([builder |-> builder, message_y |-> draw_y], participants,
                                   diagram.statements[draw_i + 1], options, bottom_box_y)
       IN /\ builder' = st.builder
          /\ draw_y' = st.message_y
    /\ draw_i' = draw_i + 1
    /\ pc' = IF draw_i + 1 = NumStatements THEN "to_string" ELSE "draw_messages"
    /\ UNCHANGED <<inputVars, dimVars, gapVars, participants, boundsVars, bottom_box_y, result>>

\* mod.rs 48: Ok(builder.to_string()).
ReturnSvg ==
    /\ pc = "to_string"
    /\ result' = Returned(Ok(Display(builder)))
    /\ pc' = "done"
    /\ UNCHANGED <<inputVars, dimVars, gapVars, participants, boundsVars, bottom_box_y,
                   builder, drawVars>>

Next ==
    \/ CalculateDimensions
    \/ GapSpacingsBegin
    \/ GapSpacingsStep
    \/ PlaceParticipants
    \/ MessageBoundsStep
    \/ FinishLayout
    \/ NewBuilder
    \/ DrawParticipants
    \/ DrawMessageStep
    \/ ReturnSvg

Spec == Init /\ [][Next]_vars

\* ------------------------------------------------- the builder on its own

\* Largest number of fragments added to a builder.
MaxElements == 2

\* Canvas sizes a builder is made with.
BuilderSizes == {0, 120, 290}

\* Fragments as the shape primitives produce them.
FragmentPool ==
    {draw_rect(Px(20), Px(20), Px(80), Px(40), "#ecf0f1", "#333333"),
     draw_text(Px(60), Px(45), <<"A", "&", "B">>, "#333333", 14, "middle"),
     create_line(Px(60), Px(60), Px(60), Px(110), "#333333", "Solid"),
     EmptyFragment}

EmptyDiagram == [participants |-> <<>>, statements |-> <<>>]

\* SvgBuilder::new with any size and any options' theme and background flag.
InitBuilder ==
    /\ pc = "builder"
    /\ diagram = EmptyDiagram
    /\ options \in OptionsSet
    /\ LayoutLocals0
    /\ \E w \in BuilderSizes, h \in BuilderSizes :
          builder = SvgBuilder_new(w, h, colors_of(options), options.transparent_bg)
    /\ result = NoResult

\* builder.rs 50-52: add_element; it returns nothing.
BuilderAddElement ==
    /\ pc = "builder"
    /\ Len(builder.elements) < MaxElements
    /\ \E e \in FragmentPool : builder' = add_element(builder, e)
    /\ result' = NoResult
    /\ UNCHANGED <<pc, inputVars, dimVars, gapVars, participants, boundsVars, bottom_box_y,
                   drawVars>>

\* builder.rs 55-87: to_string; the builder is left as it is.
BuilderToString ==
    /\ pc = "builder"
    /\ result' = Returned(Ok(Display(builder)))
    /\ UNCHANGED <<pc, inputVars, dimVars, gapVars, participants, boundsVars, bottom_box_y,
                   builder, drawVars>>

NextBuilder ==
    \/ BuilderAddElement
    \/ BuilderToString

SpecBuilder == InitBuilder /\ [][NextBuilder]_vars

\* --------------------------------------- rendering with every arrow kind

\* sequence::render is called with one or two of the pool's participants,
\* messages of every arrow kind among them, and either font family.
InitArrows ==
    /\ pc = "calculate_layout"
    /\ \E ps \in {p \in ParticipantLists :
                     /\ Len(p) \in 1..2
                     /\ \A i \in 1..Len(p) : p[i].actor = <<<<"A">>, <<"B">>>>[i]} :
          \E ss \in UNION {[1..n -> [type : {"Message"},
                                      from : {ps[i].actor : i \in 1..Len(ps)},
                                      to : {ps[i].actor : i \in 1..Len(ps)},
                                      text : Labels, arrow_type : ArrowTypes]] :
                            n \in 0..MaxStatements} :
              diagram = [participants |-> ps, statements |-> ss]
    /\ options \in [theme : {"Light"}, font_size : FontSizes, font_family : FontFamilies,
                     transparent_bg : {FALSE}]
    /\ Locals0

SpecArrows == InitArrows /\ [][Next]_vars

\* ------------------------------------------ rendering with graded labels

\* Message labels of three widths: two that fit the narrowest gap, and the
\* long one.
GradedLabels == Labels \cup {<<"H", "e", "y">>}

\* sequence::render is called with messages among the diagram's participants
\* carrying labels of the three widths.
InitLabels ==
    /\ pc = "calculate_layout"
    /\ \E ps \in ParticipantLists :
          \E ss \in UNION {[1..n -> [type : {"Message"},
                                      from : {ps[i].actor : i \in 1..Len(ps)},
                                      to : {ps[i].actor : i \in 1..Len(ps)},
                                      text : GradedLabels,
                                      arrow_type : DiagramArrowTypes]] :
                            n \in 0..MaxStatements} :
              diagram = [participants |-> ps, statements |-> ss]
    /\ options \in {o \in OptionsSet : o.theme = "Light" /\ ~o.transparent_bg}
    /\ Locals0

SpecLabels == InitLabels /\ [][Next]_vars

\* ------------------------------------ rendering with repeated actor names

\* sequence::render is called with a participant list in which an actor name
\* may occur more than once (with or without an alias), next to a participant
\* whose name begins with it; every message carries the long label.
InitRepeated ==
    /\ pc = "calculate_layout"
    /\ \E ps \in UNION {[1..n -> {[actor |-> <<"A">>, alias |-> NoAlias],
                                   [actor |-> <<"A">>, alias |-> SomeAlias(<<"x">> \o Str_br \o <<"y">>)],
                                   [actor |-> <<"A", "B">>, alias |-> NoAlias]}] :
                         n \in 0..MaxParticipants} :
          \E ss \in UNION {[1..n -> [type : {"Message"},
                                      from : {<<"A">>, <<"A", "B">>, UnknownName},
                                      to : {<<"A">>, <<"A", "B">>, UnknownName},
                                      text : {Rep("W", 25)},
                                      arrow_type : DiagramArrowTypes]] :
                            n \in 0..MaxStatements} :
              diagram = [participants |-> ps, statements |-> ss]
    /\ options \in {o \in OptionsSet : o.theme = "Light" /\ ~o.transparent_bg}
    /\ Locals0

SpecRepeated == InitRepeated /\ [][Next]_vars

\* --------------------------------------------- draw_messages on its own

\* draw_messages is public: it is called with the participants and box height
\* calculate_layout gives for the diagram, and with a bottom_box_y of the
\* caller's choosing: the layout's own, one that leaves room for exactly one
\* self-message, one a single unit short of that, or the top padding.
InitDraw ==
    /\ pc = "draw_messages_call"
    /\ \E ps \in {p \in ParticipantLists :
                     /\ Len(p) \in 1..2
                     /\ \A i \in 1..Len(p) : p[i].actor = <<<<"A">>, <<"B">>>>[i]} :
          \E ss \in UNION {[1..n -> [type : {"Message"},
                                      from : {ps[i].actor : i \in 1..Len(ps)},
                                      to : {ps[i].actor : i \in 1..Len(ps)},
                                      text : {<<"H", "i">>},
                                      arrow_type : {"SolidClosed", "DottedOpen"}]] :
                            n \in 0..MaxStatements} :
              diagram = [participants |-> ps, statements |-> ss]
    /\ options \in {o \in OptionsSet : o.theme = "Light" /\ ~o.transparent_bg}
    /\ LET layout == calculate_layout(diagram, options.font_size)
           size == svg_size(layout.bounds, Px(PADDING))
       IN /\ participants = layout.participants
          /\ participant_height = layout.participant_height
          /\ bottom_box_y \in
                {layout.bottom_box_y,
                 first_message_y(layout.participant_height) + Px(SELF_MESSAGE_HEIGHT),
                 first_message_y(layout.participant_height) + Px(SELF_MESSAGE_HEIGHT) - 1,
                 Px(PADDING)}
          /\ builder = SvgBuilder_new(size[1], size[2], colors_of(options),
                                      options.transparent_bg)
    /\ participant_lines = <<>>
    /\ participant_widths = <<>>
    /\ spacings = <<>>
    /\ gap_i = 0
    /\ bounds = ContentBounds_new
    /\ message_y = 0
    /\ stmt_i = 0
    /\ draw_y = 0
    /\ draw_i = 0
    /\ result = NoResult

\* render.rs 115-116: the cursor's start.
DrawMessagesBegin ==
    /\ pc = "draw_messages_call"
    /\ draw_y' = first_message_y(participant_height)
    /\ draw_i' = 0
    /\ pc' = IF NumStatements = 0 THEN "to_string" ELSE "draw_messages"
    /\ UNCHANGED <<inputVars, dimVars, gapVars, participants, boundsVars, bottom_box_y,
                   builder, result>>

NextDraw ==
    \/ DrawMessagesBegin
    \/ DrawMessageStep

SpecDraw == InitDraw /\ [][NextDraw]_vars

\* ------------------------------------- rendering with adjacent messages

\* sequence::render is called with messages that connect neighbouring
\* participants, or a participant with itself, carrying a short label or one
\* of two labels that need more than any default gap.
InitAdjacent ==
    /\ pc = "calculate_layout"
    /\ \E ps \in ParticipantLists :
          \E ss \in UNION {[1..n -> {[type |-> "Message", from |-> ps[ends[1]].actor,
                                       to |-> ps[ends[2]].actor, text |-> label,
                                       arrow_type |-> "SolidClosed"] :
                                        ends \in {e \in (1..Len(ps)) \X (1..Len(ps)) :
                                                    e[1] - e[2] \in {-1, 0, 1}},
                                        label \in {<<"H", "i">>, Rep("W", 20), Rep("W", 25)}}] :
                            n \in 0..MaxStatements} :
              diagram = [participants |-> ps, statements |-> ss]
    /\ options \in {o \in OptionsSet : o.theme = "Light" /\ ~o.transparent_bg}
    /\ Locals0

SpecAdjacent == InitAdjacent /\ [][Next]_vars

\* ------------------------------------------ split_by_line_breaks on its own

\* The pieces the texts handed to split_by_line_breaks are made of: the three
\* separators, a blank, a letter, and beginnings and ends of a separator.
SplitPieces ==
    {Str_br_slash, Str_br, <<NL>>, <<" ">>, <<"a">>, <<"<", "b">>, <<"r", ">">>,
     <<"<", "b", "r">>, <<"/", ">">>}

RECURSIVE Concat(_)
Concat(pieces) == IF pieces = <<>> THEN <<>> ELSE Head(pieces) \o Concat(Tail(pieces))

\* split_by_line_breaks is about to be called with a text of up to MaxTextLen
\* pieces, kept as the actor name of the diagram's one participant.
InitSplit ==
    /\ pc = "text"
    /\ \E pieces \in UNION {[1..n -> SplitPieces] : n \in 0..MaxTextLen} :
          diagram = [participants |-> <<[actor |-> Concat(pieces), alias |-> NoAlias]>>,
                     statements |-> <<>>]
    /\ options \in {o \in OptionsSet : o.theme = "Light" /\ ~o.transparent_bg}
    /\ Locals0

\* text.rs 72-79: the text is split; the lines are kept as the first entry of
\* participant_lines.
SplitText ==
    /\ pc = "text"
    /\ participant_lines' = <<split_by_line_breaks(diagram.participants[1].actor)>>
    /\ pc' = "split"
    /\ UNCHANGED <<inputVars, participant_widths, participant_height, gapVars, participants,
                   boundsVars, bottom_box_y, builder, drawVars, result>>

\* text.rs 72-79, called again with one of the lines it returned (draw_i says
\* which); what it answers is kept as the second entry.
SplitLine ==
    /\ pc = "split"
    /\ \E i \in 1..Len(participant_lines[1]) :
          /\ participant_lines' =
                <<participant_lines[1], split_by_line_breaks(participant_lines[1][i])>>
          /\ draw_i' = i
    /\ pc' = "split_again"
    /\ UNCHANGED <<inputVars, participant_widths, participant_height, gapVars, participants,
                   boundsVars, bottom_box_y, builder, draw_y, result>>

NextSplit ==
    \/ SplitText
    \/ SplitLine

SpecSplit == InitSplit /\ [][NextSplit]_vars

\* ------------------------------------------ the bounds tracker on its own

\* Coordinates and sizes handed to the tracker, negative ones among them.
BoundsCoordinates == {Px(-30), 0, Px(40)}
BoundsSizes == {Px(-50), Px(25)}

\* The call just made, kept as the one statement of the (empty) diagram.
Called(op, x, y, width, height) ==
    [participants |-> <<>>,
     statements |-> <<[type |-> op, x |-> x, y |-> y, width |-> width, height |-> height]>>]

\* ContentBounds::new.
InitBounds ==
    /\ pc = "new"
    /\ diagram = EmptyDiagram
    /\ options \in {o \in OptionsSet : o.theme = "Light" /\ ~o.transparent_bg}
    /\ Locals0

\* bounds.rs 20-23, with the point of test_bounds_include_point (66) among
\* the arguments.
BoundsIncludePoint ==
    /\ \E pt \in (BoundsCoordinates \X BoundsCoordinates) \cup {<<Px(100), Px(200)>>} :
          /\ bounds' = include_point(bounds, pt[1], pt[2])
          /\ diagram' = Called("include_point", pt[1], pt[2], 0, 0)
    /\ pc' = "include_point"
    /\ UNCHANGED <<options, dimVars, gapVars, participants, message_y, stmt_i, bottom_box_y,
                   builder, drawVars, result>>

\* bounds.rs 26-28, with the rectangle of test_bounds_include_rect (73) among
\* the arguments.
BoundsIncludeRect ==
    /\ \E r \in (BoundsCoordinates \X BoundsCoordinates \X BoundsSizes \X BoundsSizes)
                  \cup {<<Px(10), Px(20), Px(100), Px(50)>>} :
          /\ bounds' = include_rect(bounds, r[1], r[2], r[3], r[4])
          /\ diagram' = Called("include_rect", r[1], r[2], r[3], r[4])
    /\ pc' = "include_rect"
    /\ UNCHANGED <<options, dimVars, gapVars, participants, message_y, stmt_i, bottom_box_y,
                   builder, drawVars, result>>

\* bounds.rs 31-39, with the three anchors and one the match does not name.
BoundsIncludeText ==
    /\ \E x \in BoundsCoordinates, y \in BoundsCoordinates, tw \in BoundsSizes,
          anchor \in {"start", "middle", "end", "justify"} :
          /\ bounds' = include_text(bounds, x, y, tw, anchor)
          /\ diagram' = Called("include_text:" \o anchor, x, y, tw, 0)
    /\ pc' = "include_text"
    /\ UNCHANGED <<options, dimVars, gapVars, participants, message_y, stmt_i, bottom_box_y,
                   builder, drawVars, result>>

\* bounds.rs 42-46: svg_size(&self, padding) answers the size, for no padding
\* (as in the tests) or the renderer's; the padding is kept as the call's x.
BoundsSvgSize ==
    /\ \E padding \in {0, Px(PADDING)} :
          /\ LET size == svg_size(bounds, padding)
             IN result' = Returned(Ok(<<SvgOpen(size[1], size[2], size[1], size[2])>>))
          /\ diagram' = Called("svg_size", padding, 0, 0, 0)
    /\ pc' = "svg_size"
    /\ UNCHANGED <<options, dimVars, gapVars, participants, boundsVars, bottom_box_y,
                   builder, drawVars>>

NextBounds ==
    \/ BoundsIncludePoint
    \/ BoundsIncludeRect
    \/ BoundsIncludeText
    \/ BoundsSvgSize

SpecBounds == InitBounds /\ [][NextBounds]_vars

\* ----------------------------------------------------------------- lib.rs

\* Err(RenderError::...): the error as the one piece of the result's value.
Err(kind, message) == [ok |-> FALSE, value |-> <<[kind |-> kind, message |-> message]>>]

\* What parse_diagram (mermaid_parser) answers for the input text: an error, a
\* diagram of another type, or a sequence diagram.
ParseOutcomes ==
    {[parsed |-> k, participants |-> <<>>, statements |-> <<>>] : k \in {"Err", "Flowchart"}}
    \cup {[parsed |-> "Sequence", participants |-> d.participants, statements |-> d.statements] :
            d \in {x \in Diagrams : Len(x.participants) < MaxParticipants}}

\* render_sequence_diagram is called with a text and the default options.
InitApi ==
    /\ pc = "render_sequence_diagram"
    /\ diagram \in ParseOutcomes
    /\ options \in {o \in OptionsSet : o.theme = "Light" /\ ~o.transparent_bg}
    /\ Locals0

\* A variant that hands whatever was parsed to the sequence renderer.
RenderSequenceDiagram_any_type ==
    /\ pc = "render_sequence_diagram"
    /\ IF diagram.parsed = "Err"
       THEN /\ result' = Returned(Err("ParseError", "e.to_string()"))
            /\ pc' = "done"
       ELSE /\ result' = result
            /\ pc' = "calculate_layout"
    /\ UNCHANGED <<inputVars, dimVars, gapVars, participants, boundsVars, bottom_box_y,
                   builder, drawVars>>

\* lib.rs 70-79: parse, then render a sequence diagram or refuse.
RenderSequenceDiagram ==
    /\ pc = "render_sequence_diagram"
    /\ CASE diagram.parsed = "Err" ->
               /\ result' = Returned(Err("ParseError", "e.to_string()"))
               /\ pc' = "done"
         [] diagram.parsed = "Sequence" ->
               /\ result' = result
               /\ pc' = "calculate_layout"
         [] OTHER ->
               /\ result' = Returned(Err("UnsupportedDiagram", "Expected a sequence diagram"))
               /\ pc' = "done"
    /\ UNCHANGED <<inputVars, dimVars, gapVars, participants, boundsVars, bottom_box_y,
                   builder, drawVars>>

NextApi ==
    \/ RenderSequenceDiagram
    \/ Next

SpecApi == InitApi /\ [][NextApi]_vars

\* ------------------------------------------- the text primitives on their own

\* The five characters escape_xml replaces, a letter, and the semicolon that
\* ends an entity.
TextAlphabet == {"&", "<", ">", "\"", "'", "a", ";"}

TextsUpTo(n) == UNION {[1..k -> TextAlphabet] : k \in 0..n}

\* The lines handed to the primitives: none, one text, or a short line
\* followed by a text.
TextLineLists ==
    {<<>>} \cup {<<t>> : t \in TextsUpTo(MaxTextLen)}
    \cup {<<s, t>> : s \in TextsUpTo(1), t \in TextsUpTo(MaxTextLen)}

InitText ==
    /\ pc = "text"
    /\ diagram = EmptyDiagram
    /\ options \in {o \in OptionsSet : o.theme = "Light" /\ ~o.transparent_bg}
    /\ participant_lines \in TextLineLists
    /\ participant_widths = <<>>
    /\ participant_height = 0
    /\ spacings = <<>>
    /\ gap_i = 0
    /\ participants = <<>>
    /\ bounds = ContentBounds_new
    /\ message_y = 0
    /\ stmt_i = 0
    /\ bottom_box_y = 0
    /\ draw_y = 0
    /\ draw_i = 0
    /\ builder = SvgBuilder_new(0, 0, colors_of(options), options.transparent_bg)
    /\ result = NoResult

\* shapes.rs 210-220: draw_text of one of the lines; draw_i remembers which.
TextDrawText ==
    /\ pc = "text"
    /\ builder.elements = <<>>
    /\ \E i \in 1..Len(participant_lines) :
          /\ builder' = add_element(builder,
                            draw_text(Px(60), Px(45), participant_lines[i],
                                      builder.colors.text, options.font_size, "middle"))
          /\ draw_i' = i
    /\ UNCHANGED <<pc, inputVars, dimVars, gapVars, participants, boundsVars, bottom_box_y,
                   draw_y, result>>

\* shapes.rs 226-261: draw_multiline_text of all the lines.
TextDrawMultiline ==
    /\ pc = "text"
    /\ builder.elements = <<>>
    /\ builder' = add_element(builder,
                      draw_multiline_text(Px(60), Px(40), participant_lines,
                                          builder.colors.text, options.font_size,
                                          Px(LINE_HEIGHT), "middle"))
    /\ UNCHANGED <<pc, inputVars, dimVars, gapVars, participants, boundsVars, bottom_box_y,
                   drawVars, result>>

NextText ==
    \/ TextDrawText
    \/ TextDrawMultiline

SpecText == InitText /\ [][NextText]_vars

\* ----------------------------------------------------------------- claims

SetMax(S) == CHOOSE m \in S : \A x \in S : x <= m

ParticipantIndices == 1..Len(diagram.participants)

\* The width and the height a participant's own display text asks for.
RequiredWidth(p) ==
    calculate_text_box_width(get_participant_lines(p), options.font_size,
                             Px(PARTICIPANT_PADDING))

RequiredHeight(p) ==
    calculate_text_box_height(Len(get_participant_lines(p)), Px(LINE_HEIGHT),
                              Px(PARTICIPANT_VERTICAL_PADDING))

ExpectedBoxWidth ==
    SetMax({Px(MIN_PARTICIPANT_WIDTH)}
           \cup {RequiredWidth(diagram.participants[i]) : i \in ParticipantIndices})

ExpectedBoxHeight ==
    SetMax({Px(MIN_PARTICIPANT_HEIGHT)}
           \cup {RequiredHeight(diagram.participants[i]) : i \in ParticipantIndices})

LayoutPlaced ==
    pc \in {"message_bounds", "bottom_boxes", "new_builder", "draw_participants",
            "draw_messages", "to_string", "done"}

ParticipantsDrawn == pc \in {"draw_messages", "to_string", "done"}

Rects(elements) == {i \in 1..Len(elements) : elements[i].kind = "rect"}

\* C1: every participant layout record carries the one width
\* max(MIN_PARTICIPANT_WIDTH, largest required width), and every top and
\* bottom box drawn has that width and the one height
\* max(MIN_PARTICIPANT_HEIGHT, largest required height).
C1_UniformBoxes ==
    LayoutPlaced =>
        LET w == ExpectedBoxWidth
            h == ExpectedBoxHeight
        IN /\ Len(participants) = Len(diagram.participants)
           /\ \A i \in 1..Len(participants) : participants[i].width = w
           /\ ParticipantsDrawn =>
                 /\ Cardinality(Rects(builder.elements)) = 2 * Len(diagram.participants)
                 /\ \A i \in Rects(builder.elements) :
                       /\ builder.elements[i].width = w
                       /\ builder.elements[i].height = h

\* Two participants whose names ask for different widths and line counts
\* have been drawn.
C1_Witness ==
    /\ pc = "done"
    /\ \E i, j \in ParticipantIndices :
          /\ RequiredWidth(diagram.participants[i]) > Px(MIN_PARTICIPANT_WIDTH)
          /\ RequiredWidth(diagram.participants[j]) < Px(MIN_PARTICIPANT_WIDTH)
          /\ Len(participants[i].lines) /= Len(participants[j].lines)
          /\ RequiredHeight(diagram.participants[i]) > Px(MIN_PARTICIPANT_HEIGHT)
    /\ Cardinality(Rects(builder.elements)) >= 4

GapsInitialised ==
    pc \in {"gap_loop", "calculate_participant_layouts"} \/ LayoutPlaced

MinGap(i) ==
    (participant_widths[i] \div 2) + Px(MIN_PARTICIPANT_SPACING)
    + (participant_widths[i + 1] \div 2)

\* C2: after any prefix of the statements has been processed, every gap i is
\* at least width[i]/2 + MIN_PARTICIPANT_SPACING + width[i+1]/2.
C2_GapAtLeastMinimum ==
    GapsInitialised =>
        \A i \in 1..Len(spacings) : spacings[i] >= MinGap(i)

\* Two statements have been processed, one of them a self or unknown message,
\* and a gap has grown beyond its minimum.
C2_Witness ==
    /\ pc = "calculate_participant_layouts"
    /\ gap_i = 2
    /\ \E k \in 1..2 :
          /\ IsMessage(diagram.statements[k])
          /\ \/ diagram.statements[k].from = diagram.statements[k].to
             \/ diagram.statements[k].from = UnknownName
    /\ \E i \in 1..Len(spacings) : spacings[i] > MinGap(i)


\* ---- statements, as the claims speak of them

Known(name) == \E i \in ParticipantIndices : diagram.participants[i].actor = name

\* The first participant carrying the name.
PositionOf(name) ==
    CHOOSE i \in ParticipantIndices :
        /\ diagram.participants[i].actor = name
        /\ \A j \in 1..(i - 1) : diagram.participants[j].actor /= name

IsSelfMessage(st) == IsMessage(st) /\ st.from = st.to

IsUnknownMessage(st) == IsMessage(st) /\ ~(Known(st.from) /\ Known(st.to))

IsKnownSelf(st) == IsSelfMessage(st) /\ Known(st.from)

IsKnownRegular(st) == IsMessage(st) /\ st.from /= st.to /\ Known(st.from) /\ Known(st.to)

Lo(st) == IF PositionOf(st.from) < PositionOf(st.to) THEN PositionOf(st.from)
          ELSE PositionOf(st.to)

Hi(st) == IF PositionOf(st.from) < PositionOf(st.to) THEN PositionOf(st.to)
          ELSE PositionOf(st.from)

Required(st) == text_width(st.text, options.font_size) + Px(MESSAGE_TEXT_MARGIN)

SpanOf(gaps, st) == SumSeq(SubSeq(gaps, Lo(st), Hi(st) - 1))

Centres(layouts) == [i \in 1..Len(layouts) |-> layouts[i].center_x]

WithoutSelf(d) ==
    [d EXCEPT !.statements = SelectSeq(@, LAMBDA st : ~IsSelfMessage(st))]

WithoutUnknown(d) ==
    [d EXCEPT !.statements = SelectSeq(@, LAMBDA st : ~IsUnknownMessage(st))]

\* The statement the gap loop, the bounds pass and the draw pass take next.
GapStatement == diagram.statements[gap_i + 1]
BoundsStatement == diagram.statements[stmt_i + 1]
DrawStatement == diagram.statements[draw_i + 1]

\* C3: the gaps and the participants' centres computed for a diagram are
\* those computed for the same diagram with every self-message removed.
C3_SelfMessagesNeutral ==
    pc = "done" =>
        LET plain == WithoutSelf(diagram)
        IN /\ spacings = calculate_gap_spacings(plain.participants, participant_widths,
                                                plain.statements, options.font_size)
           /\ Centres(participants)
                = Centres(calculate_layout(plain, options.font_size).participants)

\* A diagram with two or more participants, a self-message of a known
\* participant carrying the long label, and a regular message has been laid out.
C3_Witness ==
    /\ pc = "done"
    /\ Len(diagram.participants) >= 2
    /\ \E k \in 1..NumStatements :
          /\ IsKnownSelf(diagram.statements[k])
          /\ Required(diagram.statements[k]) > spacings[1]
          /\ PositionOf(diagram.statements[k].from) = 1
    /\ \E k \in 1..NumStatements : IsKnownRegular(diagram.statements[k])

C4_SkipStep ==
    /\ (pc = "gap_loop" /\ IsUnknownMessage(GapStatement)) => spacings' = spacings
    /\ (pc = "message_bounds" /\ IsUnknownMessage(BoundsStatement)) =>
          (bounds' = bounds /\ message_y' = message_y)
    /\ (pc = "draw_messages" /\ IsUnknownMessage(DrawStatement)) =>
          (builder' = builder /\ draw_y' = draw_y)

C4_SameDocument ==
    pc = "done" =>
        /\ result.returned /\ result.ok
        /\ result.value = render(WithoutUnknown(diagram), options).value

\* C4: a message naming an unknown participant changes no gap, moves no
\* cursor, adds nothing to the bounds and emits no element; the document is the
\* one rendered without that message, and render returns Ok.
C4_UnknownSkipped == [][C4_SkipStep]_vars /\ []C4_SameDocument

\* A document was returned for a diagram in which a message with an unknown
\* end precedes a regular message between known participants.
C4_Witness ==
    /\ pc = "done"
    /\ NumStatements = 2
    /\ IsUnknownMessage(diagram.statements[1])
    /\ diagram.statements[1].from /= diagram.statements[1].to
    /\ IsKnownRegular(diagram.statements[2])
    /\ Len(builder.elements) = 5 * Len(diagram.participants) + 2

C5_GrowStep ==
    (pc = "gap_loop" /\ IsKnownRegular(GapStatement)
        /\ Required(GapStatement) > SpanOf(spacings, GapStatement)) =>
        LET st == GapStatement
            lo == Lo(st)
            hi == Hi(st)
            deficit == Required(st) - SpanOf(spacings, st)
        IN /\ Len(spacings') = Len(spacings)
           /\ \A i \in 1..Len(spacings) :
                 IF lo <= i /\ i < hi
                 THEN (spacings'[i] - spacings[i]) * (hi - lo) = deficit
                 ELSE spacings'[i] = spacings[i]
           /\ SpanOf(spacings', st) = Required(st)

\* Three participants whose first statement is a message between the first
\* and the third, wider than both default gaps.
FirstToThirdCase ==
    /\ Len(diagram.participants) = 3
    /\ NumStatements >= 1
    /\ IsKnownRegular(diagram.statements[1])
    /\ Lo(diagram.statements[1]) = 1
    /\ Hi(diagram.statements[1]) = 3
    /\ Required(diagram.statements[1]) > MinGap(1) + MinGap(2)

C5_FirstToThird ==
    /\ (pc = "gap_loop" /\ gap_i = 0 /\ FirstToThirdCase) =>
          /\ spacings'[1] - spacings[1] = spacings'[2] - spacings[2]
          /\ spacings'[1] > spacings[1]
    /\ (LayoutPlaced' /\ FirstToThirdCase) =>
          participants'[2].center_x
            > Px(PADDING) + (participant_widths[1] \div 2) + MinGap(1)

\* C5: a regular message between known participants lo < hi that needs more
\* than the current span grows each crossed gap by (required - span)/(hi - lo),
\* leaves every other gap alone and makes the span equal to required; for
\* three participants a first-to-third message wider than both default gaps
\* grows both alike and moves the middle centre right.
C5_EvenGrowth == [][C5_GrowStep /\ C5_FirstToThird]_vars

\* The first-to-third message of three participants has been processed and
\* both gaps have grown.
C5_Witness ==
    /\ pc \in {"gap_loop", "calculate_participant_layouts"}
    /\ gap_i = 1
    /\ participant_widths /= <<>>
    /\ FirstToThirdCase
    /\ spacings[1] > MinGap(1)
    /\ spacings[2] > MinGap(2)

C6_Step ==
    /\ Len(spacings') = Len(spacings) =>
          \A i \in 1..Len(spacings) : spacings'[i] >= spacings[i]
    /\ (pc = "gap_loop" /\ IsKnownRegular(GapStatement)
          /\ Required(GapStatement) <= SpanOf(spacings, GapStatement)) =>
          spacings' = spacings

\* C6: no gap ever decreases, and a message that needs no more than the
\* current span of the gaps it crosses leaves every gap unchanged.
C6_GapsNeverShrink == [][C6_Step]_vars

\* A first message grew a gap; a second message across that gap needed less
\* than the span, and the growth is still there.
C6_Witness ==
    /\ pc = "calculate_participant_layouts"
    /\ gap_i = 2
    /\ IsKnownRegular(diagram.statements[1])
    /\ IsKnownRegular(diagram.statements[2])
    /\ Lo(diagram.statements[1]) = Lo(diagram.statements[2])
    /\ Hi(diagram.statements[1]) = Hi(diagram.statements[2])
    /\ Required(diagram.statements[1]) > MinGap(Lo(diagram.statements[1])) * 2
    /\ Required(diagram.statements[2]) < MinGap(Lo(diagram.statements[2]))
    /\ spacings[Lo(diagram.statements[1])] > MinGap(Lo(diagram.statements[1]))

\* The cursor's start: PADDING + boxHeight + MESSAGE_SPACING.
CursorStart == Px(PADDING) + participant_height + Px(MESSAGE_SPACING)

\* The advance the claim gives a statement.
Advance(st) ==
    IF IsKnownSelf(st) THEN Px(MESSAGE_SPACING) + Px(SELF_MESSAGE_HEIGHT)
    ELSE IF IsKnownRegular(st) THEN Px(MESSAGE_SPACING)
    ELSE 0

\* The bounds pass's cursor after the first k statements.
BoundsCursorAfter(k) ==
    message_bounds_loop([bounds |-> ContentBounds_new, message_y |-> CursorStart], participants,
                        SubSeq(diagram.statements, 1, k), options.font_size).message_y

C7_Cursors ==
    /\ pc \in {"message_bounds", "bottom_boxes"} /\ stmt_i = 0 => message_y = CursorStart
    /\ pc \in {"draw_messages", "to_string", "done"} =>
          /\ draw_i = 0 => draw_y = CursorStart
          /\ draw_y = BoundsCursorAfter(draw_i)
    /\ pc \in {"to_string", "done"} => draw_y = bottom_box_y

C7_Step ==
    /\ pc = "message_bounds" => message_y' = message_y + Advance(BoundsStatement)
    /\ pc = "draw_messages" => draw_y' = draw_y + Advance(DrawStatement)

\* C7: the draw pass's cursor equals the bounds pass's cursor before and
\* after every statement; both start at PADDING + boxHeight + MESSAGE_SPACING
\* and advance by MESSAGE_SPACING for a regular message, MESSAGE_SPACING +
\* SELF_MESSAGE_HEIGHT for a self-message between known participants and
\* nothing otherwise; the draw pass ends at bottom_box_y.
C7_SameCursor == []C7_Cursors /\ [][C7_Step]_vars

\* The draw pass has finished a diagram with a self-message and a regular
\* message between known participants.
C7_Witness ==
    /\ pc = "to_string"
    /\ \E k \in 1..NumStatements : IsKnownSelf(diagram.statements[k])
    /\ \E k \in 1..NumStatements : IsKnownRegular(diagram.statements[k])
    /\ draw_y = CursorStart + 2 * Px(MESSAGE_SPACING) + Px(SELF_MESSAGE_HEIGHT)

\* The cursor before statement k, as the claim's rule gives it.
RECURSIVE CursorBefore(_)
CursorBefore(k) ==
    IF k <= 1 THEN CursorStart
    ELSE CursorBefore(k - 1) + Advance(diagram.statements[k - 1])

CentreOf(name) == participants[PositionOf(name)].center_x

\* The right edges of everything the bounds pass includes.
XExtents ==
    {0}
    \cup {left_edge(participants[i]) + participants[i].width : i \in 1..Len(participants)}
    \cup {participants[i].center_x
            + (max_line_width(participants[i].lines, options.font_size) \div 2) :
          i \in 1..Len(participants)}
    \cup UNION {LET st == diagram.statements[k]
                    w == text_width(st.text, options.font_size)
                IN IF IsKnownSelf(st)
                   THEN {CentreOf(st.from) + Px(SELF_LOOP_WIDTH),
                         CentreOf(st.from) + Px(SELF_LOOP_TEXT_OFFSET) + w}
                   ELSE IF IsKnownRegular(st)
                   THEN {Max2(CentreOf(st.from), CentreOf(st.to)),
                         ((CentreOf(st.from) + CentreOf(st.to)) \div 2) + (w \div 2)}
                   ELSE {} : k \in 1..NumStatements}

\* The lower edges of everything the bounds pass includes.
YExtents ==
    {0}
    \cup (IF Len(participants) = 0 THEN {}
          ELSE {Px(PADDING) + participant_height,
                CursorBefore(NumStatements + 1) + participant_height})
    \cup UNION {LET st == diagram.statements[k]
                IN IF IsKnownSelf(st) THEN {CursorBefore(k) + Px(SELF_MESSAGE_HEIGHT)}
                   ELSE IF IsKnownRegular(st) THEN {CursorBefore(k)}
                   ELSE {} : k \in 1..NumStatements}

IsFragment(piece) == piece.kind \notin {"svg_open", "svg_close", "lit", "background"}

Backgrounds(doc) == {i \in 1..Len(doc) : doc[i].kind = "background"}

\* The theme's declared background colour.
DeclaredBackground == IF options.theme = "Light" THEN "#ffffff" ELSE "#1a1a2e"

\* The document less its background rectangle and the separator after it.
WithoutBackground(doc) ==
    IF Backgrounds(doc) = {} THEN doc
    ELSE LET i == CHOOSE j \in Backgrounds(doc) : TRUE
         IN SubSeq(doc, 1, i - 1) \o SubSeq(doc, i + 2, Len(doc))

\* C9: with the transparent flag off the document holds exactly one
\* full-canvas background rectangle, in the theme's background colour, before
\* every fragment; with the flag on it holds none; the rest of the document is
\* the same either way.
C9_Background ==
    result.returned =>
        LET doc == result.value
            flipped == Display([builder EXCEPT !.transparent = ~@])
        IN IF ~options.transparent_bg
           THEN /\ Cardinality(Backgrounds(doc)) = 1
                /\ \A i \in Backgrounds(doc) :
                      /\ doc[i] = [kind |-> "background", width |-> "100%", height |-> "100%",
                                   fill |-> DeclaredBackground]
                      /\ \A j \in 1..Len(doc) : IsFragment(doc[j]) => i < j
                /\ WithoutBackground(doc) = flipped
           ELSE /\ Backgrounds(doc) = {}
                /\ doc = WithoutBackground(flipped)

\* A builder holding two fragments has been serialized with the flag off
\* under the dark theme.
C9_Witness ==
    /\ pc = "builder"
    /\ result.returned
    /\ Len(builder.elements) = 2
    /\ ~options.transparent_bg
    /\ options.theme = "Dark"
    /\ Cardinality(Backgrounds(result.value)) = 1

\* C10: the document starts with the root element's opening tag and ends with
\* its closing tag, and the declared width and height are the last two numbers
\* of the view box "0 0 width height".
C10_RootElement ==
    result.returned =>
        LET doc == result.value
        IN /\ doc[1].kind = "svg_open"
           /\ doc[Len(doc)].kind = "svg_close"
           /\ \A i \in 2..(Len(doc) - 1) : doc[i].kind \notin {"svg_open", "svg_close"}
           /\ doc[1].width = builder.width
           /\ doc[1].height = builder.height
           /\ doc[1].viewBox = <<0, 0, doc[1].width, doc[1].height>>

\* A builder with no fragment, a transparent background and a width that
\* differs from its height has been serialized.
C10_Witness ==
    /\ pc = "builder"
    /\ result.returned
    /\ builder.elements = <<>>
    /\ builder.transparent
    /\ builder.width /= builder.height


\* ---- escaping

\* The named entity of a special character; any other character as it is.
EntityOf(c) ==
    CASE c = "&" -> Str_amp
      [] c = "<" -> Str_lt
      [] c = ">" -> Str_gt
      [] c = "\"" -> Str_quot
      [] c = "'" -> Str_apos
      [] OTHER -> <<c>>

\* The text with every character replaced on its own, once.
RECURSIVE EscapedOnce(_)
EscapedOnce(s) == IF s = <<>> THEN <<>> ELSE EntityOf(Head(s)) \o EscapedOnce(Tail(s))

Entities == {Str_amp, Str_lt, Str_gt, Str_quot, Str_apos}

\* No raw special character is left: an ampersand only opens an entity.
NoRawSpecial(out) ==
    \A j \in 1..Len(out) :
        /\ out[j] \notin {"<", ">", "\"", "'"}
        /\ out[j] = "&" => \E e \in Entities : IsPrefix(e, SubSeq(out, j, Len(out)))

EscapedAs(out, source) == out = EscapedOnce(source) /\ NoRawSpecial(out)

\* C11: the content of every text element emitted by draw_text and by
\* draw_multiline_text is its source line with each of & < > " ' replaced by
\* its named entity, once, and every other character unchanged; no raw special
\* character is left in it.
C11_TextEscaped ==
    (pc = "text" /\ builder.elements /= <<>>) =>
        LET e == builder.elements[1]
        IN CASE e.kind = "text" -> EscapedAs(e.content, participant_lines[draw_i])
             [] e.kind = "multiline" ->
                   /\ Len(e.texts) = Len(participant_lines)
                   /\ \A i \in 1..Len(e.texts) :
                         EscapedAs(e.texts[i].content, participant_lines[i])
             [] OTHER -> e = EmptyFragment /\ participant_lines = <<>>

\* draw_text has emitted a line that holds a less-than sign, an ampersand and
\* a letter.
C11_Witness ==
    /\ pc = "text"
    /\ builder.elements /= <<>>
    /\ builder.elements[1].kind = "text"
    /\ participant_lines[draw_i] = <<"<", "&", "a">>
    /\ builder.elements[1].content = Str_lt \o Str_amp \o <<"a">>

\* ---- outcomes of render_sequence_diagram

\* Neither layout nor drawing has touched anything.
NothingAttempted == LayoutLocals0 /\ builder = NoBuilder

\* C12: a parse failure yields ParseError and a parsed diagram of another type
\* yields UnsupportedDiagram, both without any layout or drawing; every parsed
\* sequence diagram yields Ok with a document.
C12_ThreeOutcomes ==
    /\ diagram.parsed /= "Sequence" => NothingAttempted
    /\ result.returned => pc = "done"
    /\ pc = "done" =>
          /\ result.returned
          /\ Len(result.value) >= 1
          /\ CASE diagram.parsed = "Err" ->
                    ~result.ok /\ result.value[1].kind = "ParseError"
               [] diagram.parsed = "Sequence" ->
                    /\ result.ok
                    /\ result.value[1].kind = "svg_open"
                    /\ result.value[Len(result.value)].kind = "svg_close"
               [] OTHER ->
                    ~result.ok /\ result.value[1].kind = "UnsupportedDiagram"

\* A flowchart has been refused.
C12_Witness ==
    /\ pc = "done"
    /\ diagram.parsed = "Flowchart"
    /\ ~result.ok
    /\ result.value[1].kind = "UnsupportedDiagram"
    /\ NothingAttempted

\* ---- arrows

\* The table of the claim: <<line style, start marker, end marker>>.
ArrowTable ==
    [k \in ArrowTypes |->
        CASE k = "SolidOpen" -> <<"Solid", "None", "None">>
          [] k = "SolidClosed" -> <<"Solid", "None", "Closed">>
          [] k = "Cross" -> <<"Solid", "None", "Cross">>
          [] k = "Point" -> <<"Solid", "None", "Open">>
          [] k = "BiDirectionalSolid" -> <<"Solid", "Closed", "Closed">>
          [] k = "DottedOpen" -> <<"Dotted", "None", "None">>
          [] k = "DottedClosed" -> <<"Dotted", "None", "Closed">>
          [] k = "BiDirectionalDotted" -> <<"Dotted", "Closed", "Closed">>]

\* The marker an arrow fragment carries at x: its style, None when absent.
MarkerAt(arrow, x) ==
    LET heads == {i \in 2..Len(arrow.parts) : arrow.parts[i].x = x}
    IN IF heads = {} THEN "None"
       ELSE LET h == arrow.parts[CHOOSE i \in heads : TRUE]
            IN CASE h.kind = "polygon" -> "Closed"
                 [] h.kind = "open_head" -> "Open"
                 [] h.kind = "cross" -> "Cross"

\* <<line style, start marker, end marker>> as an arrow fragment shows them.
StylesOf(arrow) ==
    LET line == arrow.parts[1]
    IN <<IF line.dash = "" THEN "Solid" ELSE "Dotted", MarkerAt(arrow, line.x1),
         MarkerAt(arrow, line.x2)>>

C13_Step ==
    /\ \A k \in ArrowTypes : arrow_type_to_styles(k) = ArrowTable[k]
    /\ (pc = "draw_messages" /\ IsKnownRegular(DrawStatement)) =>
          LET arrow == builder'.elements[Len(builder.elements) + 1]
          IN /\ Len(builder'.elements) = Len(builder.elements) + 2
             /\ arrow.kind = "arrow"
             /\ arrow.parts[1].kind = "line"
             /\ arrow.parts[1].x1 = CentreOf(DrawStatement.from)
             /\ arrow.parts[1].x2 = CentreOf(DrawStatement.to)
             /\ Len(arrow.parts)
                   = 1 + Cardinality({i \in 2..3 :
                                        ArrowTable[DrawStatement.arrow_type][i] /= "None"})
             /\ StylesOf(arrow) = ArrowTable[DrawStatement.arrow_type]

\* C13: arrow_type_to_styles is the table of the eight arrow kinds, and every
\* regular message is drawn with the line style, start marker and end marker
\* of its own arrow kind.
C13_ArrowTable == [][C13_Step]_vars

\* An async arrow (Point) and a two-headed dotted arrow have been drawn.
C13_Witness ==
    /\ pc = "to_string"
    /\ NumStatements = 2
    /\ IsKnownRegular(diagram.statements[1])
    /\ IsKnownRegular(diagram.statements[2])
    /\ diagram.statements[1].arrow_type = "Point"
    /\ diagram.statements[2].arrow_type = "BiDirectionalDotted"
    /\ StylesOf(builder.elements[Len(builder.elements) - 3]) = <<"Solid", "None", "Open">>
    /\ StylesOf(builder.elements[Len(builder.elements) - 1]) = <<"Dotted", "Closed", "Closed">>

\* ---- order of the fragments

\* The fragment is the label of layout record p: its lines, at its centre.
IsLabelOf(e, p) ==
    IF Len(p.lines) = 1
    THEN e.kind = "text" /\ e.x = p.center_x /\ e.content = EscapedOnce(p.lines[1])
    ELSE /\ e.kind = "multiline"
         /\ Len(e.texts) = Len(p.lines)
         /\ \A i \in 1..Len(p.lines) :
               e.texts[i].x = p.center_x /\ e.texts[i].content = EscapedOnce(p.lines[i])

\* The y of a label fragment's first line.
LabelY(e) == IF e.kind = "text" THEN e.y ELSE e.texts[1].y

\* The five fragments of participant i, in the claim's order, from position at.
IsParticipantGroup(elements, at, i) ==
    LET p == participants[i]
    IN /\ elements[at].kind = "rect"
       /\ elements[at].x = left_edge(p)
       /\ elements[at].y = Px(PADDING)
       /\ IsLabelOf(elements[at + 1], p)
       /\ LabelY(elements[at + 1]) < bottom_box_y
       /\ elements[at + 2].kind = "line"
       /\ elements[at + 2].x1 = p.center_x
       /\ elements[at + 2].y1 = Px(PADDING) + participant_height
       /\ elements[at + 2].y2 = bottom_box_y
       /\ elements[at + 3].kind = "rect"
       /\ elements[at + 3].x = left_edge(p)
       /\ elements[at + 3].y = bottom_box_y
       /\ IsLabelOf(elements[at + 4], p)
       /\ LabelY(elements[at + 4]) > bottom_box_y

\* The two fragments of a message between known participants, from position at.
IsMessageGroup(elements, at, st) ==
    /\ IF st.from = st.to
       THEN elements[at].kind = "self_loop" /\ elements[at].path[1] = CentreOf(st.from)
       ELSE /\ elements[at].kind = "arrow"
            /\ elements[at].parts[1].x1 = CentreOf(st.from)
            /\ elements[at].parts[1].x2 = CentreOf(st.to)
    /\ elements[at + 1].kind = "text"
    /\ elements[at + 1].content = EscapedOnce(st.text)

\* The messages that are drawn: those between known participants.
DrawnMessages == SelectSeq(diagram.statements, LAMBDA st : IsKnownSelf(st) \/ IsKnownRegular(st))

\* C14: the document's fragments are, in this order, the five fragments of
\* each participant in list order (top box, top label, lifeline, bottom box,
\* bottom label) and then, for each drawn message in statement order, its
\* arrow or self-loop and its label; the document holds exactly the fragments
\* added, in the order added.
C14_FragmentOrder ==
    (pc = "done" /\ result.ok) =>
        LET elements == SelectSeq(result.value, IsFragment)
            n == Len(diagram.participants)
        IN /\ elements = builder.elements
           /\ Len(elements) = 5 * n + 2 * Len(DrawnMessages)
           /\ \A i \in 1..n : IsParticipantGroup(elements, 5 * (i - 1) + 1, i)
           /\ \A j \in 1..Len(DrawnMessages) :
                 IsMessageGroup(elements, 5 * n + 2 * j - 1, DrawnMessages[j])

\* Two participants with a self-message and then a regular message: fourteen
\* fragments.
C14_Witness ==
    /\ pc = "done"
    /\ result.ok
    /\ Len(diagram.participants) = 2
    /\ NumStatements = 2
    /\ IsKnownSelf(diagram.statements[1])
    /\ IsKnownRegular(diagram.statements[2])
    /\ diagram.statements[1].text /= diagram.statements[2].text
    /\ Len(SelectSeq(result.value, IsFragment)) = 14

\* ---- a gap and the label that spans it

GapsDone == pc = "calculate_participant_layouts"

\* Statement k is a message between known participants that crosses gap i.
Crosses(k, i) ==
    /\ IsKnownRegular(diagram.statements[k])
    /\ Lo(diagram.statements[k]) <= i
    /\ i < Hi(diagram.statements[k])

LabelWidth(text) == text_width(text, options.font_size)

\* Statement k carries the longest label among the messages crossing gap i.
LongestAcross(k, i) ==
    /\ Crosses(k, i)
    /\ \A j \in 1..NumStatements :
          Crosses(j, i) => LabelWidth(diagram.statements[j].text)
                             <= LabelWidth(diagram.statements[k].text)

\* The labels wider than that of statement k.
WiderLabels(k) ==
    {l \in GradedLabels : LabelWidth(l) > LabelWidth(diagram.statements[k].text)}

\* The gaps of the diagram that differs only in the label of statement k.
GapsRelabelled(k, label) ==
    calculate_gap_spacings(diagram.participants, participant_widths,
                           [diagram.statements EXCEPT ![k].text = label], options.font_size)

\* C15 as stated: the gap is strictly larger for the wider label, whichever
\* two labels are compared.
C15_StrictlyLarger ==
    GapsDone =>
        \A i \in 1..Len(spacings) : \A k \in 1..NumStatements :
            LongestAcross(k, i) =>
                \A l \in WiderLabels(k) : GapsRelabelled(k, l)[i] > spacings[i]

\* Gap i is crossed only by messages between participants i and i + 1.
OnlyAdjacentAcross(i) ==
    \A j \in 1..NumStatements :
        Crosses(j, i) => Hi(diagram.statements[j]) = Lo(diagram.statements[j]) + 1

\* C15, amended: a gap crossed only by messages between its two participants
\* is the larger of its minimum and the required width of the longest label;
\* with a wider label it is at least as large, and strictly larger exactly
\* when the wider label's required width exceeds the minimum gap.
C15_LargerBeyondMinimum ==
    GapsDone =>
        \A i \in 1..Len(spacings) : \A k \in 1..NumStatements :
            (LongestAcross(k, i) /\ OnlyAdjacentAcross(i)) =>
                /\ spacings[i] = Max2(MinGap(i), Required(diagram.statements[k]))
                /\ \A l \in WiderLabels(k) :
                      LET wider == GapsRelabelled(k, l)[i]
                      IN /\ wider >= spacings[i]
                         /\ wider > spacings[i]
                               <=> LabelWidth(l) + Px(MESSAGE_TEXT_MARGIN) > MinGap(i)

\* One gap, crossed by one message whose short label has a wider short label
\* and a wider long label to compare with; the gap is at its minimum.
C15_Witness ==
    /\ GapsDone
    /\ Len(spacings) = 1
    /\ NumStatements = 1
    /\ LongestAcross(1, 1)
    /\ diagram.statements[1].text = <<"H", "i">>
    /\ spacings[1] = MinGap(1)
    /\ GapsRelabelled(1, <<"H", "e", "y">>)[1] = spacings[1]
    /\ GapsRelabelled(1, Rep("W", 25))[1] > spacings[1]

\* ---- font family

\* The font families carried by the text elements of a document.
FontFamiliesIn(doc) ==
    UNION {CASE doc[i].kind = "text" -> {doc[i].font_family}
             [] doc[i].kind = "multiline" ->
                   {doc[i].texts[j].font_family : j \in 1..Len(doc[i].texts)}
             [] OTHER -> {} : i \in 1..Len(doc)}

\* C16: every text element of the rendered document carries the font family
\* of the options it was rendered with.
C16_FontFamilyPassedThrough ==
    (pc = "done" /\ result.ok) => FontFamiliesIn(result.value) \subseteq {options.font_family}

\* ---- the bounds tracker

C17_Step ==
    /\ bounds'.max_x >= bounds.max_x
    /\ bounds'.max_y >= bounds.max_y
    /\ pc' = "svg_size" => bounds' = bounds

C17_AboveZero == bounds.max_x >= 0 /\ bounds.max_y >= 0

\* C17: whatever is included, with whatever arguments, max_x and max_y never
\* decrease and never fall below 0, and svg_size leaves the tracker as it is.
C17_BoundsNeverShrink == [][C17_Step]_vars /\ []C17_AboveZero

\* A rectangle with negative corner and negative size was included into a
\* tracker that had grown, and the tracker kept its extent.
C17_Witness ==
    /\ pc = "include_rect"
    /\ diagram.statements[1].x < 0
    /\ diagram.statements[1].width < 0
    /\ diagram.statements[1].y < 0
    /\ bounds.max_x > Px(40)
    /\ bounds.max_y = Px(40)

\* ---- room for a label

\* C18: after layout the centres of the two participants of every non-self
\* message between known participants are at least textWidth(label) +
\* MESSAGE_TEXT_MARGIN apart, so the centred label lies between the two
\* lifelines with at least MESSAGE_TEXT_MARGIN / 2 on each side.
C18_RoomForLabel ==
    LayoutPlaced =>
        \A k \in 1..NumStatements :
            IsKnownRegular(diagram.statements[k]) =>
                LET st == diagram.statements[k]
                    left == CentreOf(diagram.participants[Lo(st)].actor)
                    right == CentreOf(diagram.participants[Hi(st)].actor)
                    middle == (CentreOf(st.from) + CentreOf(st.to)) \div 2
                    half == LabelWidth(st.text) \div 2
                IN /\ right - left >= LabelWidth(st.text) + Px(MESSAGE_TEXT_MARGIN)
                   /\ middle - half >= left + (Px(MESSAGE_TEXT_MARGIN) \div 2)
                   /\ middle + half <= right - (Px(MESSAGE_TEXT_MARGIN) \div 2)

\* Three participants; a long first-to-third message, then a long
\* first-to-second one that overlaps it: the second has exactly its room, the
\* first more than it needs.
C18_Witness ==
    /\ pc = "done"
    /\ Len(participants) = 3
    /\ NumStatements = 2
    /\ IsKnownRegular(diagram.statements[1])
    /\ IsKnownRegular(diagram.statements[2])
    /\ Lo(diagram.statements[1]) = 1 /\ Hi(diagram.statements[1]) = 3
    /\ Lo(diagram.statements[2]) = 1 /\ Hi(diagram.statements[2]) = 2
    /\ participants[2].center_x - participants[1].center_x = Required(diagram.statements[2])
    /\ participants[3].center_x - participants[1].center_x > Required(diagram.statements[1])
    /\ Required(diagram.statements[1]) > MinGap(1) + MinGap(2)

\* ---- vertical position

\* The y at which a message's arrow or self-loop is drawn.
ShapeY(e) == IF e.kind = "arrow" THEN e.parts[1].y1 ELSE e.path[2]

\* The cursor for the j-th drawn message, from the counts of the regular and
\* the self messages drawn before it.
YFromCounts(j) ==
    LET before == SubSeq(DrawnMessages, 1, j - 1)
    IN Px(PADDING) + participant_height + Px(MESSAGE_SPACING)
       + Len(SelectSeq(before, LAMBDA st : st.from /= st.to)) * Px(MESSAGE_SPACING)
       + Len(SelectSeq(before, LAMBDA st : st.from = st.to))
            * (Px(MESSAGE_SPACING) + Px(SELF_MESSAGE_HEIGHT))

\* C19: the messages between known participants are drawn at y coordinates
\* that strictly increase in statement order, each the start of the cursor
\* plus MESSAGE_SPACING per regular message and MESSAGE_SPACING +
\* SELF_MESSAGE_HEIGHT per self-message before it, whatever the labels, arrow
\* kinds and centres.
C19_YFromOrder ==
    pc \in {"to_string", "done"} =>
        LET n == Len(diagram.participants)
            shape(j) == builder.elements[5 * n + 2 * j - 1]
        IN /\ Len(builder.elements) = 5 * n + 2 * Len(DrawnMessages)
           /\ \A j \in 1..Len(DrawnMessages) :
                 /\ ShapeY(shape(j)) = YFromCounts(j)
                 /\ shape(j).kind = "arrow" => shape(j).parts[1].y2 = YFromCounts(j)
                 /\ j > 1 => ShapeY(shape(j - 1)) < ShapeY(shape(j))

\* A self-message and then a regular message with another label and a dotted
\* two-headed arrow, drawn under boxes taller than the minimum.
C19_Witness ==
    /\ pc = "done"
    /\ participant_height > Px(MIN_PARTICIPANT_HEIGHT)
    /\ Len(DrawnMessages) = 2
    /\ DrawnMessages[1].from = DrawnMessages[1].to
    /\ DrawnMessages[2].from /= DrawnMessages[2].to
    /\ DrawnMessages[1].text /= DrawnMessages[2].text
    /\ DrawnMessages[2].arrow_type = "BiDirectionalDotted"
    /\ ShapeY(builder.elements[Len(builder.elements) - 1])
          = ShapeY(builder.elements[Len(builder.elements) - 3])
            + Px(MESSAGE_SPACING) + Px(SELF_MESSAGE_HEIGHT)

\* ---- placement

\* C20: the first centre is PADDING + width / 2 and each following centre is
\* the previous one plus the gap between them, so the centres strictly
\* increase and neighbouring boxes are at least MIN_PARTICIPANT_SPACING apart;
\* with no or one participant there is no gap.
C20_Placement ==
    /\ (GapsInitialised /\ Len(diagram.participants) <= 1) => spacings = <<>>
    /\ LayoutPlaced =>
          /\ Len(participants) = Len(diagram.participants)
          /\ Len(spacings) = IF Len(participants) = 0 THEN 0 ELSE Len(participants) - 1
          /\ Len(participants) >= 1 =>
                participants[1].center_x = Px(PADDING) + (participants[1].width \div 2)
          /\ \A i \in 1..(Len(participants) - 1) :
                /\ participants[i + 1].center_x = participants[i].center_x + spacings[i]
                /\ participants[i + 1].center_x > participants[i].center_x
                /\ left_edge(participants[i + 1])
                      - (left_edge(participants[i]) + participants[i].width)
                      >= Px(MIN_PARTICIPANT_SPACING)

\* Three participants placed after a message has grown the second gap only.
C20_Witness ==
    /\ LayoutPlaced
    /\ Len(participants) = 3
    /\ spacings[1] = MinGap(1)
    /\ spacings[2] > MinGap(2)
    /\ participants[3].center_x - participants[2].center_x
          > participants[2].center_x - participants[1].center_x

\* ---- the divisor of the deficit

\* The statement the gap loop processes next.
NextGapStatement == diagram.statements[gap_i + 1]

\* C21: whenever the gap loop comes to a message with from /= to whose two
\* names both resolve, the two indices differ, so the number of spanned gaps,
\* by which the deficit is divided, is at least 1, and the slice of spanned
\* gaps lies within the gap vector; also with repeated actor names.
C21_DivisorAtLeastOne ==
    (pc = "gap_loop" /\ gap_i < NumStatements /\ IsMessage(NextGapStatement)
       /\ NextGapStatement.from /= NextGapStatement.to) =>
        LET from_idx == find_participant_index(diagram.participants, NextGapStatement.from)
            to_idx == find_participant_index(diagram.participants, NextGapStatement.to)
            min_idx == IF from_idx.v < to_idx.v THEN from_idx.v ELSE to_idx.v
            max_idx == IF from_idx.v < to_idx.v THEN to_idx.v ELSE from_idx.v
        IN (from_idx.some /\ to_idx.some) =>
              /\ from_idx.v /= to_idx.v
              /\ max_idx - min_idx >= 1
              /\ 1 <= min_idx
              /\ max_idx - 1 <= Len(spacings)

\* The actor name A occurs twice before AB; the next message goes from AB to
\* A, resolves to the third and the first participant, and needs more room
\* than the two gaps give.
C21_Witness ==
    /\ pc = "gap_loop"
    /\ gap_i < NumStatements
    /\ Len(diagram.participants) = 3
    /\ diagram.participants[1].actor = diagram.participants[2].actor
    /\ diagram.participants[1].alias /= diagram.participants[2].alias
    /\ NextGapStatement.from = diagram.participants[3].actor
    /\ NextGapStatement.to = diagram.participants[1].actor
    /\ find_participant_index(diagram.participants, NextGapStatement.from) = Some(3)
    /\ find_participant_index(diagram.participants, NextGapStatement.to) = Some(1)
    /\ required_width(NextGapStatement, options.font_size) > current_span(spacings, 1, 3)

\* ---- the self-message test of the draw pass

\* C22: a step of the draw pass on a self-message of a known participant
\* advances the cursor by MESSAGE_SPACING + SELF_MESSAGE_HEIGHT; it appends the
\* loop at the cursor and then the label when cursor + SELF_MESSAGE_HEIGHT <=
\* bottom_box_y, and leaves the builder as it was otherwise.
C22_Step ==
    (pc = "draw_messages" /\ draw_i < NumStatements /\ draw_i' = draw_i + 1
       /\ IsKnownSelf(DrawStatement)) =>
        LET n == Len(builder.elements)
        IN /\ draw_y' = draw_y + Px(MESSAGE_SPACING) + Px(SELF_MESSAGE_HEIGHT)
           /\ IF draw_y + Px(SELF_MESSAGE_HEIGHT) <= bottom_box_y
              THEN /\ Len(builder'.elements) = n + 2
                   /\ SubSeq(builder'.elements, 1, n) = builder.elements
                   /\ builder'.elements[n + 1].kind = "self_loop"
                   /\ builder'.elements[n + 1].path[1] = CentreOf(DrawStatement.from)
                   /\ builder'.elements[n + 1].path[2] = draw_y
                   /\ builder'.elements[n + 2].kind = "text"
                   /\ builder'.elements[n + 2].anchor = "start"
                   /\ builder'.elements[n + 2].content = EscapedOnce(DrawStatement.text)
              ELSE builder' = builder

C22_SelfLoopGuard == [][C22_Step]_vars

\* Two self-messages under a bottom_box_y that leaves room for exactly one:
\* the first has been drawn, the second skipped, the cursor advanced twice.
C22_Witness ==
    /\ pc = "to_string"
    /\ draw_i = 2
    /\ IsKnownSelf(diagram.statements[1])
    /\ IsKnownSelf(diagram.statements[2])
    /\ bottom_box_y = CursorStart + Px(SELF_MESSAGE_HEIGHT)
    /\ Len(builder.elements) = 2
    /\ builder.elements[1].kind = "self_loop"
    /\ builder.elements[1].path[2] = CursorStart
    /\ draw_y = CursorStart + 2 * (Px(MESSAGE_SPACING) + Px(SELF_MESSAGE_HEIGHT))

\* ---- the self-message test within render

\* The self-loops among the fragments.
SelfLoops(elements) == SelectSeq(elements, LAMBDA e : e.kind = "self_loop")

\* The self-messages of known participants among the first k statements.
KnownSelfUpTo(k) == SelectSeq(SubSeq(diagram.statements, 1, k), IsKnownSelf)

\* C23: within render, whenever the draw pass comes to a self-message of a
\* known participant, bottom_box_y is at least the cursor plus MESSAGE_SPACING
\* + SELF_MESSAGE_HEIGHT, so the test cursor + SELF_MESSAGE_HEIGHT <=
\* bottom_box_y holds and every such self-message is drawn.
C23_SkipNeverTaken ==
    /\ (pc = "draw_messages" /\ draw_i < NumStatements /\ IsKnownSelf(DrawStatement)) =>
          /\ bottom_box_y >= draw_y + Px(MESSAGE_SPACING) + Px(SELF_MESSAGE_HEIGHT)
          /\ draw_y + Px(SELF_MESSAGE_HEIGHT) <= bottom_box_y
    /\ pc \in {"draw_messages", "to_string", "done"} =>
          Len(SelfLoops(builder.elements)) = Len(KnownSelfUpTo(draw_i))

\* A message of an unknown participant and then a self-message, which is the
\* last statement: it has been drawn, its loop ending above bottom_box_y.
C23_Witness ==
    /\ pc = "to_string"
    /\ NumStatements = 2
    /\ IsUnknownMessage(diagram.statements[1])
    /\ IsKnownSelf(diagram.statements[2])
    /\ Len(SelfLoops(builder.elements)) = 1
    /\ SelfLoops(builder.elements)[1].path[2] = CursorStart
    /\ bottom_box_y = CursorStart + Px(MESSAGE_SPACING) + Px(SELF_MESSAGE_HEIGHT)

\* ---- everything inside the canvas

\* The source lines of the k-th fragment when it is a label: a participant's
\* display lines, or a drawn message's text.
LabelLines(k) ==
    IF k <= 5 * Len(participants)
    THEN participants[((k - 1) \div 5) + 1].lines
    ELSE <<DrawnMessages[(k - 5 * Len(participants) + 1) \div 2].text>>

\* The horizontal extent of a text of width tw placed by its anchor.
TextLeft(t, tw) ==
    CASE t.anchor = "middle" -> t.x - (tw \div 2)
      [] t.anchor = "end" -> t.x - tw
      [] OTHER -> t.x

TextRight(t, tw) ==
    CASE t.anchor = "middle" -> t.x + (tw \div 2)
      [] t.anchor = "end" -> t.x
      [] OTHER -> t.x + tw

\* The x coordinates that bound the k-th fragment.
FragmentXs(k) ==
    LET e == builder.elements[k]
        w(i) == text_width(LabelLines(k)[i], options.font_size)
    IN CASE e.kind = "rect" -> {e.x, e.x + e.width}
         [] e.kind = "line" -> {e.x1, e.x2}
         [] e.kind = "arrow" -> {e.parts[1].x1, e.parts[1].x2}
         [] e.kind = "self_loop" ->
              {e.path[i] : i \in {1, 3, 5, 7, 9}} \cup {e.polygon[i] : i \in {1, 3, 5}}
         [] e.kind = "text" -> {TextLeft(e, w(1)), TextRight(e, w(1))}
         [] e.kind = "multiline" ->
              UNION {{TextLeft(e.texts[i], w(i)), TextRight(e.texts[i], w(i))} :
                     i \in 1..Len(e.texts)}

\* The y coordinates that bound the k-th fragment when it is a box, a
\* lifeline, an arrow or a self-loop.
FragmentYs(k) ==
    LET e == builder.elements[k]
    IN CASE e.kind = "rect" -> {e.y, e.y + e.height}
         [] e.kind = "line" -> {e.y1, e.y2}
         [] e.kind = "arrow" -> {e.parts[1].y1, e.parts[1].y2}
         [] e.kind = "self_loop" ->
              {e.path[i] : i \in {2, 4, 6, 8, 10}} \cup {e.polygon[i] : i \in {2, 4, 6}}
         [] OTHER -> {}

\* C24: every fragment of the draw pass lies inside the declared canvas with
\* the PADDING margin: its left edge is at least PADDING, its right edge plus
\* PADDING at most the canvas width, and the bottom of every box, lifeline,
\* arrow and self-loop plus PADDING at most the canvas height; a label's
\* extent is its text width placed by its anchor.
C24_InsideCanvas ==
    pc \in {"to_string", "done"} =>
        /\ Len(builder.elements) = 5 * Len(participants) + 2 * Len(DrawnMessages)
        /\ \A k \in 1..Len(builder.elements) :
              /\ \A x \in FragmentXs(k) :
                    /\ x >= Px(PADDING)
                    /\ x + Px(PADDING) <= builder.width * Scale
              /\ \A y \in FragmentYs(k) :
                    /\ y >= Px(PADDING)
                    /\ y + Px(PADDING) <= builder.height * Scale

\* Three participants, a regular message with the long label and a
\* self-message of the last participant with the long label: the label of the
\* self-message reaches further right than the last box and sets the width.
C24_Witness ==
    /\ pc = "done"
    /\ Len(participants) = 3
    /\ Len(DrawnMessages) = 2
    /\ IsKnownRegular(DrawnMessages[1])
    /\ IsKnownSelf(DrawnMessages[2])
    /\ DrawnMessages[2].from = diagram.participants[3].actor
    /\ LabelWidth(DrawnMessages[1].text) > MinGap(1)
    /\ SetMax(FragmentXs(Len(builder.elements)))
          > left_edge(participants[3]) + participants[3].width
    /\ builder.width = Ceil(SetMax(FragmentXs(Len(builder.elements))) + Px(PADDING))
    /\ builder.height * Scale
          = bottom_box_y + participant_height + Px(PADDING)

\* ---- messages on the lifelines

\* Where every lifeline starts: the lower edge of the top boxes.
LifelineStart == Px(PADDING) + participant_height

\* C25: each lifeline runs from PADDING + boxHeight, the lower edge of its top
\* box, to bottom_box_y, the upper edge of its bottom box; every regular arrow
\* is drawn at least MESSAGE_SPACING below the lifelines' start and at least
\* MESSAGE_SPACING above bottom_box_y, and every self-loop lies at least
\* MESSAGE_SPACING below the start and ends at or above bottom_box_y.
C25_OnTheLifelines ==
    pc \in {"to_string", "done"} =>
        LET n == Len(participants)
        IN /\ Len(builder.elements) = 5 * n + 2 * Len(DrawnMessages)
           /\ \A i \in 1..n :
                LET top == builder.elements[5 * (i - 1) + 1]
                    lifeline == builder.elements[5 * (i - 1) + 3]
                    bottom == builder.elements[5 * (i - 1) + 4]
                IN /\ top.kind = "rect" /\ top.y + top.height = LifelineStart
                   /\ lifeline.kind = "line"
                   /\ lifeline.x1 = participants[i].center_x
                   /\ lifeline.x2 = participants[i].center_x
                   /\ lifeline.y1 = LifelineStart
                   /\ lifeline.y2 = bottom_box_y
                   /\ bottom.kind = "rect" /\ bottom.y = bottom_box_y
           /\ \A j \in 1..Len(DrawnMessages) :
                LET k == 5 * n + 2 * j - 1
                IN /\ builder.elements[k].kind \in {"arrow", "self_loop"}
                   /\ \A y \in FragmentYs(k) : y >= LifelineStart + Px(MESSAGE_SPACING)
                   /\ builder.elements[k].kind = "arrow" =>
                         \A y \in FragmentYs(k) : y + Px(MESSAGE_SPACING) <= bottom_box_y
                   /\ builder.elements[k].kind = "self_loop" =>
                         \A y \in FragmentYs(k) : y <= bottom_box_y

\* Two participants under boxes taller than the minimum; a regular message at
\* the first position and a self-message as the last one, whose arrowhead ends
\* above the bottom boxes.
C25_Witness ==
    /\ pc = "done"
    /\ Len(participants) = 2
    /\ participant_height > Px(MIN_PARTICIPANT_HEIGHT)
    /\ Len(DrawnMessages) = 2
    /\ IsKnownRegular(DrawnMessages[1])
    /\ IsKnownSelf(DrawnMessages[2])
    /\ builder.elements[11].kind = "arrow"
    /\ builder.elements[11].parts[1].y1 = LifelineStart + Px(MESSAGE_SPACING)
    /\ builder.elements[13].kind = "self_loop"
    /\ SetMax(FragmentYs(13)) < bottom_box_y
    /\ SetMax(FragmentYs(13)) > builder.elements[13].path[2]

\* ---- adjacent messages: the largest label decides, in any order

\* Every message between two different known participants connects neighbours.
AllAdjacent ==
    \A k \in 1..NumStatements :
        IsKnownRegular(diagram.statements[k]) =>
            Hi(diagram.statements[k]) = Lo(diagram.statements[k]) + 1

\* The orderings of n statements.
Orderings(n) == {f \in [1..n -> 1..n] : \A a, b \in 1..n : f[a] = f[b] => a = b}

\* C26: when every non-self message connects two adjacent participants, each
\* final gap is the larger of the default gap and the largest textWidth(label)
\* + MESSAGE_TEXT_MARGIN over the messages crossing it, and every ordering of
\* the statements gives the same gap vector.
C26_MaxInAnyOrder ==
    (GapsDone /\ AllAdjacent) =>
        /\ \A i \in 1..Len(spacings) :
              spacings[i] = SetMax({MinGap(i)}
                                   \cup {Required(diagram.statements[k]) :
                                           k \in {j \in 1..NumStatements : Crosses(j, i)}})
        /\ \A f \in Orderings(NumStatements) :
              calculate_gap_spacings(diagram.participants, participant_widths,
                                     [k \in 1..NumStatements |-> diagram.statements[f[k]]],
                                     options.font_size) = spacings

\* Three participants; two labels that both need more than the default gap
\* cross the first gap in opposite directions, the shorter one first: the
\* gap is what the longer one requires, the second gap is at its default.
C26_Witness ==
    /\ GapsDone
    /\ Len(diagram.participants) = 3
    /\ NumStatements = 2
    /\ AllAdjacent
    /\ Crosses(1, 1) /\ Crosses(2, 1)
    /\ diagram.statements[1].from = diagram.statements[2].to
    /\ Required(diagram.statements[1]) > MinGap(1)
    /\ Required(diagram.statements[2]) > Required(diagram.statements[1])
    /\ spacings[1] = Required(diagram.statements[2])
    /\ spacings[2] = MinGap(2)

\* ---- the parts of an arrow

\* The fragment kind of a marker style.
KindOfMarker(style) ==
    CASE style = "Closed" -> "polygon"
      [] style = "Open" -> "open_head"
      [] style = "Cross" -> "cross"
      [] OTHER -> "empty"

\* The markers the claim expects after the line of an arrow from (x1, y) to
\* (x2, y) with the given start and end styles: where, which, and in which
\* direction (in multiples of pi; a cross has none).
ExpectedMarkers(x1, x2, y, start_end, end_end) ==
    LET forward == IF x2 >= x1 THEN 0 ELSE 1
    IN (IF end_end = "None" THEN <<>>
        ELSE <<[kind |-> KindOfMarker(end_end), x |-> x2, y |-> y, angle |-> forward]>>)
       \o (IF start_end = "None" THEN <<>>
           ELSE <<[kind |-> KindOfMarker(start_end), x |-> x1, y |-> y,
                   angle |-> forward + 1]>>)

\* The part is the expected marker.
IsMarker(part, m) ==
    /\ part.kind = m.kind
    /\ part.x = m.x
    /\ part.y = m.y
    /\ m.kind /= "cross" => part.angle = m.angle

\* C27: the arrow of a regular message is its line, then the end marker at
\* the target point in the forward direction, then the start marker at the
\* source point in the reverse direction, a None marker being left out; it
\* holds as many filled arrowheads as its arrow kind has Closed markers, two
\* for the bidirectional kinds, one at each end.
C27_ArrowParts ==
    pc \in {"to_string", "done"} =>
        /\ Len(builder.elements) = 5 * Len(participants) + 2 * Len(DrawnMessages)
        /\ \A j \in 1..Len(DrawnMessages) :
              IsKnownRegular(DrawnMessages[j]) =>
                 LET st == DrawnMessages[j]
                     arrow == builder.elements[5 * Len(participants) + 2 * j - 1]
                     table == ArrowTable[st.arrow_type]
                     markers == ExpectedMarkers(CentreOf(st.from), CentreOf(st.to),
                                                arrow.parts[1].y1, table[2], table[3])
                     polygons == {i \in 1..Len(arrow.parts) : arrow.parts[i].kind = "polygon"}
                 IN /\ arrow.kind = "arrow"
                    /\ arrow.parts[1].kind = "line"
                    /\ arrow.parts[1].x1 = CentreOf(st.from)
                    /\ arrow.parts[1].x2 = CentreOf(st.to)
                    /\ Len(arrow.parts) = 1 + Len(markers)
                    /\ \A i \in 1..Len(markers) : IsMarker(arrow.parts[i + 1], markers[i])
                    /\ Cardinality(polygons)
                          = Cardinality({i \in 2..3 : table[i] = "Closed"})
                    /\ st.arrow_type \in {"BiDirectionalSolid", "BiDirectionalDotted"} =>
                          /\ Cardinality(polygons) = 2
                          /\ arrow.parts[2].x = CentreOf(st.to)
                          /\ arrow.parts[3].x = CentreOf(st.from)

\* A two-headed solid arrow drawn from right to left, then a line without
\* markers: the first has its line, the head at the target pointing left and
\* the head at the source pointing right, the second its line alone.
C27_Witness ==
    /\ pc = "done"
    /\ Len(participants) = 2
    /\ Len(DrawnMessages) = 2
    /\ IsKnownRegular(DrawnMessages[1])
    /\ IsKnownRegular(DrawnMessages[2])
    /\ DrawnMessages[1].arrow_type = "BiDirectionalSolid"
    /\ DrawnMessages[2].arrow_type = "SolidOpen"
    /\ CentreOf(DrawnMessages[1].to) < CentreOf(DrawnMessages[1].from)
    /\ Len(builder.elements[11].parts) = 3
    /\ builder.elements[11].parts[2].kind = "polygon"
    /\ builder.elements[11].parts[2].x = participants[1].center_x
    /\ builder.elements[11].parts[2].angle = 1
    /\ builder.elements[11].parts[3].kind = "polygon"
    /\ builder.elements[11].parts[3].x = participants[2].center_x
    /\ builder.elements[11].parts[3].angle = 2
    /\ Len(builder.elements[13].parts) = 1

\* ---- the tracker's operations, reduced to include_point

\* The call a step of the tracker makes.
BoundsCall == diagram'.statements[1]

\* The tracker after including the point (x, y): the larger of each extent.
WithPoint(x, y) ==
    [max_x |-> IF x > bounds.max_x THEN x ELSE bounds.max_x,
     max_y |-> IF y > bounds.max_y THEN y ELSE bounds.max_y]

\* The size is <<ceil(max_x + p), ceil(max_y + p)>>.
IsCeilSize(size, p) ==
    /\ size.width * Scale >= bounds.max_x + p
    /\ (size.width - 1) * Scale < bounds.max_x + p
    /\ size.height * Scale >= bounds.max_y + p
    /\ (size.height - 1) * Scale < bounds.max_y + p

C28_Step ==
    /\ pc' = "include_point" => bounds' = WithPoint(BoundsCall.x, BoundsCall.y)
    /\ pc' = "include_rect" =>
          bounds' = WithPoint(BoundsCall.x + BoundsCall.width, BoundsCall.y + BoundsCall.height)
    /\ pc' = "include_text" =>
          bounds' = WithPoint(
                      CASE BoundsCall.type = "include_text:start" ->
                             BoundsCall.x + BoundsCall.width
                        [] BoundsCall.type = "include_text:middle" ->
                             BoundsCall.x + (BoundsCall.width \div 2)
                        [] BoundsCall.type = "include_text:end" -> BoundsCall.x
                        [] OTHER -> BoundsCall.x + BoundsCall.width,
                      BoundsCall.y)
    /\ pc' = "svg_size" =>
          /\ bounds' = bounds
          /\ IsCeilSize(result'.value[1], BoundsCall.x)
          /\ (BoundsCall.x = 0 /\ bounds = ContentBounds_new) =>
                (result'.value[1].width = 0 /\ result'.value[1].height = 0)
          /\ (BoundsCall.x = 0 /\ bounds = [max_x |-> Px(100), max_y |-> Px(200)]) =>
                (result'.value[1].width = 100 /\ result'.value[1].height = 200)
          /\ (BoundsCall.x = 0 /\ bounds = [max_x |-> Px(110), max_y |-> Px(70)]) =>
                (result'.value[1].width = 110 /\ result'.value[1].height = 70)
    /\ (bounds = ContentBounds_new /\ pc' = "include_point"
          /\ BoundsCall.x = Px(100) /\ BoundsCall.y = Px(200)) =>
          bounds' = [max_x |-> Px(100), max_y |-> Px(200)]
    /\ (bounds = ContentBounds_new /\ pc' = "include_rect"
          /\ BoundsCall.x = Px(10) /\ BoundsCall.y = Px(20)
          /\ BoundsCall.width = Px(100) /\ BoundsCall.height = Px(50)) =>
          bounds' = [max_x |-> Px(110), max_y |-> Px(70)]

\* C28: include_point takes the larger of each extent and the point;
\* include_rect(x, y, w, h) acts as include_point(x + w, y + h); include_text
\* acts as include_point(r, y) with r = x + tw for "start", x + tw/2 for
\* "middle", x for "end" and x + tw for any other anchor; svg_size(p) answers
\* (ceil(max_x + p), ceil(max_y + p)) and leaves the tracker alone: (0, 0) for
\* p = 0 on a fresh tracker, (100, 200) after include_point(100, 200),
\* (110, 70) after include_rect(10, 20, 100, 50).
C28_ReducesToPoint == [][C28_Step]_vars

\* svg_size(0) has answered (110, 70) for a tracker that holds the rectangle
\* (10, 20, 100, 50).
C28_Witness ==
    /\ pc = "svg_size"
    /\ diagram.statements[1].x = 0
    /\ bounds = [max_x |-> Px(110), max_y |-> Px(70)]
    /\ result.returned
    /\ result.value[1].width = 110
    /\ result.value[1].height = 70

\* ---- splitting into lines

\* The separator the text begins with, or the empty text when it begins with
\* none.
LeadingSeparator(s) ==
    IF IsPrefix(Str_br_slash, s) THEN Str_br_slash
    ELSE IF IsPrefix(Str_br, s) THEN Str_br
    ELSE IF IsPrefix(<<NL>>, s) THEN <<NL>>
    ELSE <<>>

\* The text cut at every separator, read from left to right: the pieces
\* between separators, empty ones included.
RECURSIVE CutAtSeparators(_, _)
CutAtSeparators(s, cur) ==
    IF s = <<>> THEN <<cur>>
    ELSE IF LeadingSeparator(s) /= <<>>
         THEN <<cur>> \o CutAtSeparators(SubSeq(s, Len(LeadingSeparator(s)) + 1, Len(s)), <<>>)
         ELSE CutAtSeparators(Tail(s), Append(cur, Head(s)))

\* The line holds no separator, is not empty and neither begins nor ends with
\* whitespace.
IsCleanLine(line) ==
    /\ line /= <<>>
    /\ ~IsWhitespace(line[1])
    /\ ~IsWhitespace(line[Len(line)])
    /\ \A i \in 1..Len(line) : LeadingSeparator(SubSeq(line, i, Len(line))) = <<>>

\* The pieces with their surrounding whitespace removed.
Stripped(pieces) == [i \in 1..Len(pieces) |-> Trim(pieces[i])]

\* C29: split_by_line_breaks cuts the text at every "<br/>", "<br>" and
\* newline and returns the trimmed pieces that are not empty, in their order;
\* an empty or all-whitespace text gives no line; and applied to a line it
\* returned it gives exactly that line.
C29_SplitLines ==
    /\ pc \in {"split", "split_again"} =>
          LET text == diagram.participants[1].actor
              lines == participant_lines[1]
          IN /\ lines = SelectSeq(Stripped(CutAtSeparators(text, <<>>)),
                                  LAMBDA piece : piece /= <<>>)
             /\ \A i \in 1..Len(lines) : IsCleanLine(lines[i])
             /\ (\A i \in 1..Len(text) : IsWhitespace(text[i])) => lines = <<>>
    /\ pc = "split_again" =>
          participant_lines[2] = <<participant_lines[1][draw_i]>>

\* A blank, a letter and a "<br>": the piece before the separator was
\* trimmed, the empty one after it dropped, and the one line returned was
\* split again into itself.
C29_Witness ==
    /\ pc = "split_again"
    /\ diagram.participants[1].actor = <<" ", "a">> \o Str_br
    /\ participant_lines[1] = << <<"a">> >>
    /\ draw_i = 1
    /\ participant_lines[2] = << <<"a">> >>

\* ---- one line style per arrow kind

\* The line style a drawn arrow or self-loop shows.
LineStyleOf(shape) ==
    LET dash == IF shape.kind = "arrow" THEN shape.parts[1].dash ELSE shape.dash
    IN IF dash = "" THEN "Solid" ELSE "Dotted"

\* C30: for each of the eight arrow kinds is_dotted_arrow is true exactly when
\* arrow_type_to_styles gives the line style Dotted; so every drawn message,
\* self or regular, shows the line style of its arrow kind, and two messages
\* of the same kind show the same one.
C30_SameLineStyle ==
    /\ \A k \in ArrowTypes : is_dotted_arrow(k) <=> (arrow_type_to_styles(k)[1] = "Dotted")
    /\ pc \in {"to_string", "done"} =>
          LET shape(j) == builder.elements[5 * Len(participants) + 2 * j - 1]
          IN /\ Len(builder.elements) = 5 * Len(participants) + 2 * Len(DrawnMessages)
             /\ \A j \in 1..Len(DrawnMessages) :
                   /\ shape(j).kind = IF IsKnownSelf(DrawnMessages[j]) THEN "self_loop"
                                      ELSE "arrow"
                   /\ LineStyleOf(shape(j)) = arrow_type_to_styles(DrawnMessages[j].arrow_type)[1]
             /\ \A i, j \in 1..Len(DrawnMessages) :
                   DrawnMessages[i].arrow_type = DrawnMessages[j].arrow_type =>
                      LineStyleOf(shape(i)) = LineStyleOf(shape(j))

\* A self-message and a regular message, both with the two-headed dotted
\* arrow, have been drawn, both dotted.
C30_Witness ==
    /\ pc = "done"
    /\ Len(participants) = 2
    /\ Len(DrawnMessages) = 2
    /\ IsKnownSelf(DrawnMessages[1])
    /\ IsKnownRegular(DrawnMessages[2])
    /\ DrawnMessages[1].arrow_type = "BiDirectionalDotted"
    /\ DrawnMessages[2].arrow_type = "BiDirectionalDotted"
    /\ builder.elements[11].kind = "self_loop"
    /\ builder.elements[11].dash = "5,5"
    /\ builder.elements[13].kind = "arrow"
    /\ builder.elements[13].parts[1].dash = "5,5"

====
